---- MODULE Spec2Model ----
(***************************************************************************)
(* Model of the ASD file reader/writer ASDFile of                          *)
(* src/SpectInstrulment/asd_Spect/asdFileHandle.py.                        *)
(*                                                                         *)
(* A file is a sequence of bytes (0..255) with the byte layout of the      *)
(* source.  Python values are represented as follows:                      *)
(*   - an attribute that is None or a record is a sequence of length 0     *)
(*     (None) or 1 (the record);                                           *)
(*   - an offset is a natural number, None (the value a decoder returns    *)
(*     from its except branch) or NoneTuple (the pair (None, None) that    *)
(*     __check_offset returns and read stores in `offset`);                *)
(*   - a float32, an int32 or a 64-bit field whose value the code only     *)
(*     carries from unpack to pack is held as a signed integer (4 bytes)   *)
(*     or as its bytes (8 bytes): struct.pack and struct.unpack are        *)
(*     inverse to each other on these bit patterns; the float32 fields     *)
(*     channel1Wavelength and wavelengthStep, which np.arange reads, and   *)
(*     splice1_wavelength and splice2_wavelength, which the normalisation  *)
(*     truncates to indices, are integers in the same encoding;            *)
(*   - referenceTime is the timestamp of the file, which the code holds    *)
(*     as the datetime of that timestamp;                                  *)
(*   - the doubles of a spectrum are their 8 bytes, and the arithmetic of  *)
(*     the accessors is exact arithmetic on the rationals they denote;     *)
(*   - a str is the sequence of its code points, and bytes.decode and      *)
(*     str.encode are the UTF-8 codec on sequences of one and two bytes.   *)
(* The byteStream/byteStreamLength members of the decoded records are      *)
(* copies of the input that no method reads; they are left out.            *)
(* The accessors that asdFileHandle.py lacks are those of the development  *)
(* copy src/fileIO/SpectInstrulment/ASD/dev/__test__asdFileHandle_2.py.    *)
(***************************************************************************)
EXTENDS Integers, Sequences, FiniteSets, TLC

(***************************************************************************)
(* Bounds of the model.                                                    *)
(***************************************************************************)
\* the number of calls made on the object
MaxOps == 3

(***************************************************************************)
(* Python values.                                                          *)
(***************************************************************************)
None == -1
NoneTuple == -2
NoneRec == << >>
Some(r) == << r >>
IsNone(x) == x = << >>
Get(x) == x[1]

Min(a, b) == IF a < b THEN a ELSE b
Max(a, b) == IF a > b THEN a ELSE b

\* b[lo:hi] of Python for 0 <= lo
Slice(b, lo, hi) == SubSeq(b, lo + 1, Min(hi, Len(b)))

\* struct.unpack_from(fmt, buffer, offset) raises struct.error unless
\* calcsize(fmt) bytes are available at offset
Avail(b, off, n) == off >= 0 /\ off + n <= Len(b)

RECURSIVE Flatten(_)
Flatten(ss) == IF ss = << >> THEN << >> ELSE Head(ss) \o Flatten(Tail(ss))

Zeros(n) == [i \in 1..n |-> 0]

\* bytes.ljust(n, b'\x00')
Ljust(b, n) == IF Len(b) >= n THEN b ELSE b \o Zeros(n - Len(b))

\* struct.pack('<ns', b): truncated or null-padded to n bytes
PackS(b, n) == SubSeq(Ljust(b, n), 1, n)

\* bytes.lstrip(b'\x00') and bytes.rstrip(b'\x00')
LStrip0(b) ==
    LET nz == {i \in 1..Len(b) : b[i] # 0}
    IN IF nz = {} THEN << >> ELSE SubSeq(b, CHOOSE i \in nz : \A j \in nz : i <= j, Len(b))

RStrip0(b) ==
    LET nz == {i \in 1..Len(b) : b[i] # 0}
    IN IF nz = {} THEN << >> ELSE SubSeq(b, 1, CHOOSE i \in nz : \A j \in nz : i >= j)

\* bytes.strip(b'\x00')
Strip0(b) == RStrip0(LStrip0(b))

(***************************************************************************)
(* Little-endian integer codecs of struct.                                 *)
(***************************************************************************)
U8(b, off) == b[off + 1]
S8(b, off) == IF b[off + 1] >= 128 THEN b[off + 1] - 256 ELSE b[off + 1]
U16(b, off) == b[off + 1] + 256 * b[off + 2]
S16(b, off) == IF U16(b, off) >= 32768 THEN U16(b, off) - 65536 ELSE U16(b, off)
S32(b, off) == b[off + 1] + 256 * b[off + 2] + 65536 * b[off + 3]
               + 16777216 * (IF b[off + 4] >= 128 THEN b[off + 4] - 256 ELSE b[off + 4])
\* the format 'L'; the values of the model are below 2^31
U32(b, off) == b[off + 1] + 256 * b[off + 2] + 65536 * b[off + 3] + 16777216 * b[off + 4]

PackU8(n) == << n % 256 >>
PackU16(n) == << n % 256, (n \div 256) % 256 >>
PackS16(n) == PackU16(IF n < 0 THEN n + 65536 ELSE n)
PackS32(n) == << n % 256, (n \div 256) % 256, (n \div 65536) % 256, (n \div 16777216) % 256 >>

\* ranges outside which struct.pack raises struct.error
FitsS8(n) == n >= -128 /\ n <= 127
FitsU16(n) == n >= 0 /\ n <= 65535
FitsS16(n) == n >= -32768 /\ n <= 32767

(***************************************************************************)
(* Calendar arithmetic of datetime.                                        *)
(***************************************************************************)
IsLeap(y) == (y % 4 = 0) /\ ((y % 100 # 0) \/ (y % 400 = 0))

DaysInMonth(y, m) ==
    IF m = 2 THEN (IF IsLeap(y) THEN 29 ELSE 28)
    ELSE IF m \in {4, 6, 9, 11} THEN 30 ELSE 31

DaysBeforeMonth(y, m) ==
    << 0, 31, 59, 90, 120, 151, 181, 212, 243, 273, 304, 334 >>[m]
    + (IF m > 2 /\ IsLeap(y) THEN 1 ELSE 0)

\* date.toordinal(): 1 is 0001-01-01
Ordinal(y, m, d) ==
    LET p == y - 1
    IN p * 365 + (p \div 4) - (p \div 100) + (p \div 400) + DaysBeforeMonth(y, m) + d

\* date.weekday(): Monday is 0
Weekday(y, m, d) == (Ordinal(y, m, d) + 6) % 7

\* datetime.datetime(year, month, day, hour, minute, second) raises
\* ValueError outside these ranges
DateTimeValid(y, m, d, h, mi, s) ==
    /\ y >= 1 /\ y <= 9999
    /\ m >= 1 /\ m <= 12
    /\ d >= 1 /\ d <= DaysInMonth(y, m)
    /\ h >= 0 /\ h <= 23
    /\ mi >= 0 /\ mi <= 59
    /\ s >= 0 /\ s <= 59


(***************************************************************************)
(* Results of the decoders.  val is the decoded value (None or a record),  *)
(* off the returned offset, raised tells that an exception left the        *)
(* function.                                                               *)
(***************************************************************************)
R(val, off, raised) == [val |-> val, off |-> off, raised |-> raised]
Raised == R(NoneRec, None, TRUE)
NoneNone == R(NoneRec, None, FALSE)

\* the decorator __check_offset: "call" runs the decoder, "skip" returns
\* (None, None), "raise" is the TypeError of comparing a tuple with an int
CheckOffset(stream, off) ==
    IF off = None THEN "skip"
    ELSE IF off = NoneTuple THEN "raise"
    ELSE IF off < Len(stream) THEN "call"
    ELSE "skip"

\* ASDFile.__parse_Bool
parse_Bool(stream, off) ==
    CASE CheckOffset(stream, off) = "raise" -> Raised
      [] CheckOffset(stream, off) = "skip" -> NoneNone
      [] OTHER ->
            LET buffer == Slice(stream, off, off + 2)
            IN IF buffer = << 255, 255 >> THEN R(Some(TRUE), off + 2, FALSE)
               ELSE IF buffer = << 0, 0 >> THEN R(Some(FALSE), off + 2, FALSE)
               ELSE NoneNone

\* a Boolean written as the 16-bit integers 1 and 0
wrap_Bool_int(bool) == IF bool THEN << 1, 0 >> ELSE << 0, 0 >>

\* ASDFile.__wrap_Bool
wrap_Bool(bool) == IF bool THEN << 255, 255 >> ELSE << 0, 0 >>

\* bytes.decode('utf-8') on the inputs of the model: ASCII bytes decode to
\* themselves, a byte 0x80..0xFF that starts no valid sequence raises
Utf8Valid(b) == \A i \in 1..Len(b) : b[i] < 128

\* ASDFile.__parse_bstr
parse_bstr(stream, off) ==
    CASE CheckOffset(stream, off) = "raise" -> Raised
      [] CheckOffset(stream, off) = "skip" -> NoneNone
      [] OTHER ->
            IF ~Avail(stream, off, 2) THEN NoneNone
            ELSE LET size == S16(stream, off)
                 IN IF size < 0 THEN NoneNone
                    ELSE IF ~Avail(stream, off + 2, size) THEN NoneNone
                    ELSE IF ~Utf8Valid(Slice(stream, off + 2, off + 2 + size)) THEN Raised
                    ELSE R(Some(Slice(stream, off + 2, off + 2 + size)), off + 2 + size, FALSE)

\* ASDFile.__wrap_bstr: ok is FALSE when the function raises or returns
\* (None, None)
wrap_bstr(string) ==
    IF IsNone(string) THEN [ok |-> FALSE, bytes |-> << >>]
    ELSE IF ~FitsS16(Len(Get(string))) THEN [ok |-> FALSE, bytes |-> << >>]
    ELSE [ok |-> TRUE, bytes |-> PackS16(Len(Get(string))) \o Get(string)]

\* n consecutive calls of __parse_bstr, each on the offset the previous
\* one returned
RECURSIVE parse_bstrs(_, _, _)
parse_bstrs(stream, off, n) ==
    IF n = 0 THEN [vals |-> << >>, off |-> off, raised |-> FALSE]
    ELSE LET r == parse_bstr(stream, off)
         IN IF r.raised THEN [vals |-> << >>, off |-> None, raised |-> TRUE]
            ELSE LET rest == parse_bstrs(stream, r.off, n - 1)
                 IN [vals |-> << r.val >> \o rest.vals, off |-> rest.off, raised |-> rest.raised]

RECURSIVE wrap_bstrs(_)
wrap_bstrs(strings) ==
    IF strings = << >> THEN [ok |-> TRUE, bytes |-> << >>]
    ELSE LET h == wrap_bstr(Head(strings))
             t == wrap_bstrs(Tail(strings))
         IN [ok |-> h.ok /\ t.ok, bytes |-> h.bytes \o t.bytes]

(***************************************************************************)
(* The `When` record of the metadata.                                      *)
(***************************************************************************)
\* ASDFile.__parse_ASDFilewhen: the nine int16 of the 18-byte field
parse_ASDFilewhen(when) ==
    LET seconds == S16(when, 0)
        minutes == S16(when, 2)
        hour == S16(when, 4)
        day == S16(when, 6)
        month == S16(when, 8)
        year0 == S16(when, 10)
        year == IF year0 < 1900 THEN year0 + 1900 ELSE year0
    IN IF DateTimeValid(year, month + 1, day, hour, minutes, seconds)
       THEN [ok |-> TRUE,
             when |-> [year |-> year, month |-> month + 1, day |-> day,
                       hour |-> hour, minute |-> minutes, second |-> seconds],
             daylighSavingsFlag |-> S16(when, 16)]
       ELSE [ok |-> FALSE,
             when |-> [year |-> 1, month |-> 1, day |-> 1, hour |-> 0, minute |-> 0, second |-> 0],
             daylighSavingsFlag |-> 0]

\* ASDFile.__wrap_ASDFilewhen
wrap_ASDFilewhen(when, isDaylightSaving) ==
    LET year == IF when.year >= 1900 THEN when.year - 1900 ELSE when.year
        weekDay == (Weekday(when.year, when.month, when.day) + 1) % 7
        daysInYear == Ordinal(when.year, when.month, when.day) - Ordinal(when.year, 1, 1)
    IN PackS16(when.second) \o PackS16(when.minute) \o PackS16(when.hour)
       \o PackS16(when.day) \o PackS16(when.month - 1) \o PackS16(year)
       \o PackS16(weekDay) \o PackS16(daysInYear) \o PackS16(isDaylightSaving)

(***************************************************************************)
(* Metadata: the 481-byte header after the three version bytes.            *)
(***************************************************************************)
MetadataSize == 481

\* bytes of base with the bytes `b` written at offset pos
Splice(base, pos, b) ==
    SubSeq(base, 1, pos) \o b \o SubSeq(base, pos + Len(b) + 1, Len(base))

\* ASDFile.__parse_metadata, called through __check_offset.  The fields of
\* the header that the model does not interpret stay in `fixed`.
parse_metadata(stream, off) ==
    CASE CheckOffset(stream, off) = "raise" -> Raised
      [] CheckOffset(stream, off) = "skip" -> R(NoneRec, NoneTuple, FALSE)
      [] OTHER ->
            IF ~Avail(stream, off, MetadataSize) THEN NoneNone
            ELSE LET m == Slice(stream, off, off + MetadataSize)
                     w == parse_ASDFilewhen(Slice(m, 157, 175))
                 IN IF ~w.ok THEN NoneNone
                    ELSE R(Some([comments |-> Strip0(Slice(m, 0, 157)),
                                 when |-> w.when,
                                 daylighSavingsFlag |-> w.daylighSavingsFlag,
                                 dataType |-> S8(m, 183),
                                 referenceTime |-> S32(m, 184),
                                 channel1Wavelength |-> S32(m, 188),
                                 wavelengthStep |-> S32(m, 192),
                                 channels |-> U16(m, 201),
                                 intergrationTime_ms |-> U32(m, 387),
                                 flags2 |-> S8(m, 419),
                                 swir1Gain |-> U16(m, 433),
                                 swir2Gain |-> U16(m, 435),
                                 splice1_wavelength |-> S32(m, 441),
                                 splice2_wavelength |-> S32(m, 445),
                                 fixed |-> m]),
                           off + 481, FALSE)

\* __wrap_metadata with the comments neither padded nor cut to 157 bytes and
\* without the test of the length
wrap_metadata_unpadded(md) ==
    [ok |-> TRUE, bytes |-> md.comments \o SubSeq(md.fixed, 158, MetadataSize)]

\* ASDFile.__wrap_metadata: ok is FALSE when struct.pack raises and the
\* function returns None
wrap_metadata(md) ==
    IF ~(FitsS8(md.dataType) /\ FitsU16(md.channels) /\ FitsS8(md.flags2)
         /\ FitsU16(md.swir1Gain) /\ FitsU16(md.swir2Gain)
         /\ FitsS16(md.daylighSavingsFlag))
    THEN [ok |-> FALSE, bytes |-> << >>]
    ELSE LET b1 == Splice(md.fixed, 0, PackS(md.comments, 157))
             b2 == Splice(b1, 157, wrap_ASDFilewhen(md.when, md.daylighSavingsFlag))
             b3 == Splice(b2, 183, PackU8(md.dataType) \o PackS32(md.referenceTime))
             b4 == Splice(b3, 188, PackS32(md.channel1Wavelength))
             b5 == Splice(b4, 192, PackS32(md.wavelengthStep))
             b6 == Splice(Splice(b5, 201, PackU16(md.channels)), 387, PackS32(md.intergrationTime_ms))
             b7 == Splice(b6, 419, PackU8(md.flags2))
             b8 == Splice(b7, 433, PackU16(md.swir1Gain) \o PackU16(md.swir2Gain))
             b9 == Splice(b8, 441, PackS32(md.splice1_wavelength) \o PackS32(md.splice2_wavelength))
         IN [ok |-> Len(b9) = 481, bytes |-> b9]

(***************************************************************************)
(* Spectrum blocks: channels little-endian doubles.                        *)
(***************************************************************************)
\* The doubles of a spectrum are kept as their 8 bytes.  The arithmetic of
\* the accessors takes a double as the rational it denotes, a pair
\* << numerator, denominator >> in lowest terms, and rounds nothing; it is
\* defined for the doubles of the model: zero, and the normal doubles whose
\* mantissa has at most 20 bits and whose exponent is 2^0 .. 2^10.
RECURSIVE Pow2(_)
Pow2(k) == IF k = 0 THEN 1 ELSE 2 * Pow2(k - 1)

RECURSIVE GCD(_, _)
GCD(a, b) == IF b = 0 THEN a ELSE GCD(b, a % b)

Abs(n) == IF n < 0 THEN -n ELSE n

\* the rational n / d in lowest terms, d # 0
Rat(n, d) ==
    LET g == GCD(Abs(n), Abs(d))
    IN IF d < 0 THEN << (-n) \div g, (-d) \div g >> ELSE << n \div g, d \div g >>

RatMul(r, k) == Rat(r[1] * k, r[2])
RatDiv(r, k) == Rat(r[1], r[2] * k)
RatQuot(r, q) == Rat(r[1] * q[2], r[2] * q[1])

\* the position of the leading bit of n > 0
RECURSIVE Log2(_)
Log2(n) == IF n < 2 THEN 0 ELSE 1 + Log2(n \div 2)

\* struct.pack('<d', n) for a natural n below 2^20
PackDouble(n) ==
    IF n = 0 THEN Zeros(8)
    ELSE LET e == Log2(n)
             mantissa == (n - Pow2(e)) * Pow2(20 - e)
             exponent == 1023 + e
         IN << 0, 0, 0, 0, mantissa % 256, (mantissa \div 256) % 256,
               (exponent % 16) * 16 + (mantissa \div 65536), exponent \div 16 >>

DoubleExponent(b) == (b[8] % 128) * 16 + (b[7] \div 16)
DoubleMantissa(b) == (b[7] % 16) * 65536 + b[6] * 256 + b[5]

\* the doubles whose value the model computes with
IsModelDouble(b) ==
    \/ b = Zeros(8)
    \/ /\ SubSeq(b, 1, 4) = Zeros(4)
       /\ DoubleExponent(b) \in 1023..1033

\* struct.unpack('<d', b)[0] as a rational
UnpackDouble(b) ==
    IF b = Zeros(8) THEN << 0, 1 >>
    ELSE Rat((IF b[8] >= 128 THEN -1 ELSE 1) * (1048576 + DoubleMantissa(b))
                 * Pow2(DoubleExponent(b) - 1023),
             1048576)

\* ASDFile.__parse_spectra, called through __check_offset: kind is "skip"
\* for the pair of the decorator, "fail" for the four None of the except
\* branch, "ok" otherwise
parse_spectra(stream, off, channels) ==
    CASE CheckOffset(stream, off) = "raise" -> [kind |-> "raise", spectra |-> NoneRec, off |-> None]
      [] CheckOffset(stream, off) = "skip" -> [kind |-> "skip", spectra |-> NoneRec, off |-> None]
      [] OTHER ->
            IF ~Avail(stream, off, channels * 8)
            THEN [kind |-> "fail", spectra |-> NoneRec, off |-> None]
            ELSE [kind |-> "ok",
                  spectra |-> Some([i \in 1..channels |->
                                      Slice(stream, off + 8 * (i - 1), off + 8 * i)]),
                  off |-> off + channels * 8]

\* ASDFile.__wrap_spectra
wrap_spectra(spectra, channels) ==
    IF IsNone(spectra) THEN [ok |-> FALSE, bytes |-> << >>]
    ELSE IF Len(Get(spectra)) # channels THEN [ok |-> FALSE, bytes |-> << >>]
    ELSE [ok |-> TRUE, bytes |-> Flatten(Get(spectra))]

\* ASDFile.__parse_spectrumData and ASDFile.__parse_referenceData, called
\* through __check_offset: both wrap the spectrum in a record
parse_spectrumData(stream, off, channels) ==
    CASE CheckOffset(stream, off) = "raise" -> Raised
      [] CheckOffset(stream, off) = "skip" -> R(NoneRec, NoneTuple, FALSE)
      [] OTHER ->
            LET s == parse_spectra(stream, off, channels)
            IN IF s.kind = "ok" THEN R(Some([spectra |-> s.spectra]), s.off, FALSE)
               ELSE IF s.kind = "fail" THEN R(Some([spectra |-> NoneRec]), None, FALSE)
               ELSE NoneNone


(***************************************************************************)
(* Reference file header (version >= 2).                                   *)
(***************************************************************************)
WrapFail == [ok |-> FALSE, bytes |-> << >>]
WrapOk(b) == [ok |-> TRUE, bytes |-> b]

\* ASDFile.__parse_referenceFileHeader, called through __check_offset
parse_referenceFileHeader(stream, off) ==
    CASE CheckOffset(stream, off) = "raise" -> Raised
      [] CheckOffset(stream, off) = "skip" -> R(NoneRec, NoneTuple, FALSE)
      [] OTHER ->
            LET flag == parse_Bool(stream, off)
            IN IF flag.off = None THEN NoneNone
               ELSE IF ~Avail(stream, flag.off, 16) THEN NoneNone
               ELSE LET d == parse_bstr(stream, flag.off + 16)
                    IN IF d.raised THEN NoneNone
                       ELSE R(Some([referenceFlag |-> Get(flag.val),
                                    referenceTime |-> Slice(stream, flag.off, flag.off + 8),
                                    spectrumTime |-> Slice(stream, flag.off + 8, flag.off + 16),
                                    referenceDescription |-> d.val]),
                              d.off, FALSE)

\* ASDFile.__wrap_referenceFileHeader
wrap_referenceFileHeader(h) ==
    LET d == wrap_bstr(h.referenceDescription)
    IN IF ~d.ok THEN WrapFail
       ELSE WrapOk(wrap_Bool(h.referenceFlag) \o h.referenceTime \o h.spectrumTime \o d.bytes)

(***************************************************************************)
(* Classifier data and constituents (version >= 6).                        *)
(***************************************************************************)
\* struct.calcsize('<d d d d d d d d d l d d')
ConstituentNumericSize == 92

\* the array preamble: pack('H', 1) + pack('I', count) + pack('I', 0)
PreambleSize == 10
Preamble(count) == PackU16(1) \o PackS32(count) \o PackS32(0)

\* ASDFile.__parse_constituantType, called through __check_offset
parse_constituantType(stream, off) ==
    IF CheckOffset(stream, off) # "call" THEN NoneNone
    ELSE LET n == parse_bstr(stream, off)
         IN IF n.raised THEN NoneNone
            ELSE LET pf == parse_bstr(stream, n.off)
                 IN IF pf.raised \/ pf.off = None THEN NoneNone
                    ELSE IF ~Avail(stream, pf.off, ConstituentNumericSize) THEN NoneNone
                    ELSE R(Some([constituentName |-> n.val, passFail |-> pf.val,
                                 numeric |-> Slice(stream, pf.off, pf.off + ConstituentNumericSize)]),
                           pf.off + ConstituentNumericSize, FALSE)

\* ASDFile.__wrap_constituantType
wrap_constituantType(item) ==
    IF IsNone(item) THEN WrapFail
    ELSE LET n == wrap_bstr(Get(item).constituentName)
             pf == wrap_bstr(Get(item).passFail)
         IN IF n.ok /\ pf.ok THEN WrapOk(n.bytes \o pf.bytes \o Get(item).numeric) ELSE WrapFail

\* the loop of __parse_classifierData over the constituents
RECURSIVE parse_constituants(_, _, _)
parse_constituants(stream, off, n) ==
    IF n = 0 THEN [items |-> << >>, off |-> off]
    ELSE LET r == parse_constituantType(stream, off)
             rest == parse_constituants(stream, r.off, n - 1)
         IN [items |-> << r.val >> \o rest.items, off |-> rest.off]

RECURSIVE wrap_constituants(_)
wrap_constituants(items) ==
    IF items = << >> THEN WrapOk(<< >>)
    ELSE LET h == wrap_constituantType(Head(items))
             t == wrap_constituants(Tail(items))
         IN IF h.ok /\ t.ok THEN WrapOk(h.bytes \o t.bytes) ELSE WrapFail

\* ASDFile.__parse_classifierData, called through __check_offset
parse_classifierData(stream, off) ==
    CASE CheckOffset(stream, off) = "raise" -> Raised
      [] CheckOffset(stream, off) = "skip" -> R(NoneRec, NoneTuple, FALSE)
      [] OTHER ->
            IF ~Avail(stream, off, 2) THEN NoneNone
            ELSE LET strs == parse_bstrs(stream, off + 2, 20)
                 IN IF strs.raised \/ strs.off = None THEN NoneNone
                    ELSE IF ~Avail(stream, strs.off, 2) THEN NoneNone
                    ELSE LET count == U16(stream, strs.off)
                             cs == parse_constituants(stream, strs.off + 2 + 10, count)
                         IN R(Some([yCode |-> S8(stream, off),
                                    yModelType |-> S8(stream, off + 1),
                                    strings |-> strs.vals,
                                    constituantCount |-> count,
                                    constituantItems |-> IF count > 0 THEN cs.items ELSE << >>]),
                              IF count > 0 THEN cs.off ELSE strs.off + 2 + 2,
                              FALSE)

\* ASDFile.__wrap_classifierData
wrap_classifierData(c) ==
    LET strs == wrap_bstrs(c.strings)
        items == wrap_constituants(c.constituantItems)
    IN IF ~FitsS8(c.yCode) \/ ~FitsS8(c.yModelType) \/ ~strs.ok THEN WrapFail
       ELSE IF c.constituantCount > 0 /\ (~items.ok \/ Len(c.constituantItems) < c.constituantCount)
       THEN WrapFail
       ELSE WrapOk(PackU8(c.yCode) \o PackU8(c.yModelType) \o strs.bytes
                   \o PackU16(c.constituantCount)
                   \o (IF c.constituantCount > 0
                       THEN Preamble(c.constituantCount) \o items.bytes
                       ELSE << 0, 0 >>))

(***************************************************************************)
(* Dependent variables (version >= 6).                                     *)
(***************************************************************************)
\* ASDFile.__parse_dependentVariables, called through __check_offset
parse_dependentVariables(stream, off) ==
    CASE CheckOffset(stream, off) = "raise" -> Raised
      [] CheckOffset(stream, off) = "skip" -> R(NoneRec, NoneTuple, FALSE)
      [] OTHER ->
            LET flag == parse_Bool(stream, off)
            IN IF flag.off = None THEN NoneNone
               ELSE IF ~Avail(stream, flag.off, 2) THEN NoneNone
               ELSE LET count == S16(stream, flag.off)
                        o2 == flag.off + 2
                    IN IF count > 0
                       THEN LET labels == parse_bstrs(stream, o2 + 10, count)
                            IN IF labels.raised \/ labels.off = None THEN NoneNone
                               ELSE IF ~Avail(stream, labels.off + 10, 4 * count) THEN NoneNone
                               ELSE R(Some([saveDependentVariables |-> Get(flag.val),
                                            dependentVariableCount |-> count,
                                            dependentVariableLabels |-> labels.vals,
                                            dependentVariableValue |->
                                                [i \in 1..count |-> S32(stream, labels.off + 10 + 4 * (i - 1))]]),
                                      labels.off + 10 + 4 * count, FALSE)
                       ELSE IF count = 0
                       THEN R(Some([saveDependentVariables |-> Get(flag.val),
                                    dependentVariableCount |-> 0,
                                    dependentVariableLabels |-> << >>,
                                    dependentVariableValue |-> << >>]),
                              o2 + 4, FALSE)
                       ELSE R(NoneRec, o2, FALSE)

\* ASDFile.__wrap_dependentVariables
wrap_dependentVariables(d) ==
    LET labels == wrap_bstrs(d.dependentVariableLabels)
    IN IF ~FitsS16(d.dependentVariableCount) THEN WrapFail
       ELSE IF d.dependentVariableCount > 0
       THEN IF ~labels.ok \/ Len(d.dependentVariableLabels) < d.dependentVariableCount THEN WrapFail
            ELSE WrapOk(wrap_Bool(d.saveDependentVariables) \o PackS16(d.dependentVariableCount)
                        \o Preamble(d.dependentVariableCount) \o labels.bytes
                        \o Preamble(d.dependentVariableCount)
                        \o Flatten([i \in 1..d.dependentVariableCount |->
                                       PackS32(d.dependentVariableValue[i])]))
       ELSE WrapOk(wrap_Bool(d.saveDependentVariables) \o PackS16(d.dependentVariableCount)
                   \o (IF d.dependentVariableCount = 0 THEN << 0, 0, 0, 0 >> ELSE << >>))

(***************************************************************************)
(* Calibration header (version >= 7).                                      *)
(***************************************************************************)
\* struct.calcsize('b 20s i h h'), the size under native alignment
CalibrationEntrySize_native == 1 + 20 + 3 + 4 + 2 + 2

\* struct.calcsize('<b 20s i h h')
CalibrationEntrySize == 1 + 20 + 4 + 2 + 2

\* ASDFile.__parse_calibrationHeader, called through __check_offset
parse_calibrationHeader(stream, off) ==
    CASE CheckOffset(stream, off) = "raise" -> Raised
      [] CheckOffset(stream, off) = "skip" -> R(NoneRec, NoneTuple, FALSE)
      [] OTHER ->
            LET calibrationHeaderCount == S8(stream, off)
                entry(i) == off + 1 + CalibrationEntrySize * (i - 1)
            IN IF calibrationHeaderCount > 0
               THEN IF ~Avail(stream, off + 1, CalibrationEntrySize * calibrationHeaderCount)
                    THEN NoneNone
                    ELSE R(Some([calibrationNum |-> calibrationHeaderCount,
                                 calibrationSeries |->
                                    [i \in 1..calibrationHeaderCount |->
                                        [cbtype |-> S8(stream, entry(i)),
                                         name |-> Strip0(Slice(stream, entry(i) + 1, entry(i) + 21)),
                                         rest |-> Slice(stream, entry(i) + 21, entry(i) + 29)]]]),
                           off + 1 + CalibrationEntrySize * calibrationHeaderCount, FALSE)
               ELSE R(Some([calibrationNum |-> calibrationHeaderCount, calibrationSeries |-> << >>]),
                      off + 1, FALSE)

\* ASDFile.__wrap_calibrationHeader
wrap_calibrationHeader(h) ==
    WrapOk(PackU8(h.calibrationNum)
           \o (IF h.calibrationNum > 0
               THEN Flatten([i \in 1..Len(h.calibrationSeries) |->
                               PackU8(h.calibrationSeries[i].cbtype)
                               \o PackS(h.calibrationSeries[i].name, 20)
                               \o h.calibrationSeries[i].rest])
               ELSE << >>))


(***************************************************************************)
(* Audit log (version >= 8).                                               *)
(***************************************************************************)
\* struct.calcsize('l'), the native long of the platform the files of the
\* format are written on (32 bits)
AuditCountSize == 4

\* "<Audit_Event>" and "</Audit_Event>"
OpenTag == << 60, 65, 117, 100, 105, 116, 95, 69, 118, 101, 110, 116, 62 >>
CloseTag == << 60, 47, 65, 117, 100, 105, 116, 95, 69, 118, 101, 110, 116, 62 >>

\* bytes.decode('utf-8', errors='ignore') on the inputs of the model, which
\* hold sequences of one and two bytes: a str is the sequence of its code
\* points, and a byte that starts no valid sequence is dropped
IsAscii(x) == x < 128
Utf8Start(b, i) ==
    IsAscii(b[i]) \/ (b[i] \in 194..223 /\ i < Len(b) /\ b[i + 1] \in 128..191)
Utf8CodePoint(b, i) == IF IsAscii(b[i]) THEN b[i] ELSE (b[i] - 192) * 64 + (b[i + 1] - 128)
DecodeIgnore(b) ==
    IF \A i \in 1..Len(b) : IsAscii(b[i]) THEN b
    ELSE LET starts == SelectSeq([i \in 1..Len(b) |-> i], LAMBDA i : Utf8Start(b, i))
         IN SubSeq([k \in 1..Len(starts) |-> Utf8CodePoint(b, starts[k])], 1, Len(starts))

\* str.encode('utf-8') for code points below 0x800
EncodeUtf8(str) ==
    IF \A i \in 1..Len(str) : IsAscii(str[i]) THEN str
    ELSE Flatten([i \in 1..Len(str) |->
                    IF IsAscii(str[i]) THEN << str[i] >>
                    ELSE << 192 + (str[i] \div 64), 128 + (str[i] % 64) >>])

\* the least position >= from at which tag occurs in text, 0 if none
FindTag(text, tag, from) ==
    LET hits == {i \in from..(Len(text) - Len(tag) + 1) :
                    text[i] = tag[1] /\ SubSeq(text, i, i + Len(tag) - 1) = tag}
    IN IF hits = {} THEN 0 ELSE CHOOSE i \in hits : \A j \in hits : i <= j

\* re.findall(r'<Audit_Event>(.*?)</Audit_Event>', text, re.DOTALL), each
\* match with its tags
RECURSIVE FindEvents(_, _)
FindEvents(text, from) ==
    LET p == FindTag(text, OpenTag, from)
        q == FindTag(text, CloseTag, p + Len(OpenTag))
    IN IF p = 0 THEN << >>
       ELSE IF q = 0 THEN << >>
       ELSE << SubSeq(text, p, q + Len(CloseTag) - 1) >> \o FindEvents(text, q + Len(CloseTag))

RECURSIVE SumLen2(_)
SumLen2(events) ==
    IF events = << >> THEN 0 ELSE Len(EncodeUtf8(Head(events))) + 2 + SumLen2(Tail(events))

\* ASDFile.__parse_auditEvents, called through __check_offset
parse_auditEvents(stream, off) ==
    IF CheckOffset(stream, off) # "call" THEN [ok |-> FALSE, events |-> << >>, length |-> 0]
    ELSE LET events == FindEvents(DecodeIgnore(Slice(stream, off, Len(stream))), 1)
         IN [ok |-> TRUE, events |-> events, length |-> SumLen2(events)]

\* ASDFile.__wrap_auditEvents
RECURSIVE wrap_events(_)
wrap_events(events) ==
    IF events = << >> THEN << >>
    ELSE PackS16(Len(Head(events))) \o EncodeUtf8(Head(events)) \o wrap_events(Tail(events))

wrap_auditEvents(auditEvents) ==
    IF auditEvents = << >> THEN WrapFail
    ELSE IF \E i \in 1..Len(auditEvents) : ~FitsS16(Len(auditEvents[i])) THEN WrapFail
    ELSE WrapOk(wrap_events(auditEvents))

\* ASDFile.__parse_auditLog, called through __check_offset
parse_auditLog(stream, off) ==
    CASE CheckOffset(stream, off) = "raise" -> Raised
      [] CheckOffset(stream, off) = "skip" -> R(NoneRec, NoneTuple, FALSE)
      [] OTHER ->
            IF ~Avail(stream, off, AuditCountSize) THEN NoneNone
            ELSE LET additCount == S32(stream, off)
                     ev == parse_auditEvents(stream, off + AuditCountSize + 10)
                 IN IF additCount > 0
                    THEN IF ~ev.ok THEN NoneNone
                         ELSE R(Some([auditCount |-> additCount, auditEvents |-> ev.events]),
                                off + AuditCountSize + 10 + ev.length, FALSE)
                    ELSE NoneNone

\* ASDFile.__wrap_auditLog
wrap_auditLog(a) ==
    IF IsNone(a) THEN WrapFail
    ELSE LET ev == wrap_auditEvents(Get(a).auditEvents)
         IN IF Get(a).auditCount > 0
            THEN IF ~ev.ok THEN WrapFail
                 ELSE WrapOk(PackS32(Get(a).auditCount) \o Preamble(Get(a).auditCount) \o ev.bytes)
            ELSE WrapOk(PackS32(Get(a).auditCount))

(***************************************************************************)
(* Signature (version >= 8).                                               *)
(***************************************************************************)
SignatureBlobSize == 128

\* ASDFile.__parse_signature, called through __check_offset
parse_signature(stream, off) ==
    CASE CheckOffset(stream, off) = "raise" -> Raised
      [] CheckOffset(stream, off) = "skip" -> R(NoneRec, NoneTuple, FALSE)
      [] OTHER ->
            IF ~Avail(stream, off + 1, 8) THEN NoneNone
            ELSE LET strs == parse_bstrs(stream, off + 9, 7)
                 IN IF strs.raised \/ strs.off = None THEN NoneNone
                    ELSE IF ~Avail(stream, strs.off, SignatureBlobSize) THEN NoneNone
                    ELSE R(Some([signed |-> S8(stream, off),
                                 signatureTime |-> Slice(stream, off + 1, off + 9),
                                 strings |-> strs.vals,
                                 signature |-> Slice(stream, strs.off, strs.off + SignatureBlobSize)]),
                           strs.off + SignatureBlobSize, FALSE)

\* ASDFile.__wrap_signature
wrap_signature(g) ==
    IF IsNone(g) THEN WrapFail
    ELSE LET strs == wrap_bstrs(Get(g).strings)
         IN IF ~strs.ok \/ ~FitsS8(Get(g).signed) THEN WrapFail
            ELSE WrapOk(PackU8(Get(g).signed) \o Get(g).signatureTime \o strs.bytes
                        \o PackS(Get(g).signature, SignatureBlobSize))

(***************************************************************************)
(* File version.                                                           *)
(***************************************************************************)
\* version_dict: the three bytes "ASD", "as2", ..., "as8"
VersionBytes(v) == IF v = 1 THEN << 65, 83, 68 >> ELSE << 97, 115, 48 + v >>

\* ASDFile.__validate_fileVersion: the stream is None before the first
\* file is loaded; the returned offset is always 3
validate_fileVersion(stream) ==
    IF IsNone(stream) THEN -1
    ELSE LET version_data == Slice(Get(stream), 0, 3)
         IN IF \E v \in 1..8 : version_data = VersionBytes(v)
            THEN CHOOSE v \in 1..8 : version_data = VersionBytes(v)
            ELSE -1

\* ASDFile.__setFileVersion, for asdFileVersion > 0
setFileVersion(v) == VersionBytes(v)


(***************************************************************************)
(* The files of the model.  A well-formed file is laid out as the format   *)
(* prescribes; the other files are truncated or carry one malformed field. *)
(***************************************************************************)
Bstr(b) == PackS16(Len(b)) \o b

\* 2000-01-01 00:00:00, a Saturday: seconds, minutes, hour, day, month,
\* years since 1900, weekday, day of the year, daylight savings flag
WhenOf(month, year) ==
    PackS16(0) \o PackS16(0) \o PackS16(0) \o PackS16(1) \o PackS16(month) \o PackS16(year)
    \o PackS16(6) \o PackS16(0) \o PackS16(0)

MetaBytes(channels, when) ==
    LET b1 == Splice(Zeros(MetadataSize), 0, << 104, 105 >>)
        b2 == Splice(b1, 157, when)
        b3 == Splice(b2, 183, << 1 >>)
        b4 == Splice(b3, 188, PackS32(350) \o PackS32(1))
        b5 == Splice(b4, 201, PackU16(channels))
        b6 == Splice(b5, 387, PackS32(8))
        b7 == Splice(b6, 419, << 22 >>)
        b8 == Splice(b7, 433, PackU16(1024) \o PackU16(2048))
    IN Splice(b8, 441, PackS32(1) \o PackS32(2))

\* the doubles base + 1, base + 2, ...
SpectrumBytes(channels, base) ==
    Flatten([i \in 1..channels |-> PackDouble(base + i)])

RefHeaderBytes(flag) == flag \o << 5, 0, 0, 0, 0, 0, 0, 0, 6, 0, 0, 0, 0, 0, 0, 0 >> \o Bstr(<< 114 >>)

ConstituentBytes == Bstr(<< 99 >>) \o Bstr(<< 112 >>) \o Zeros(ConstituentNumericSize)

ClassifierBytes(n) ==
    << 0, 1 >> \o Bstr(<< 116 >>) \o Zeros(2 * 19) \o PackU16(n)
    \o (IF n = 0 THEN << 0, 0 >>
        ELSE Preamble(n) \o Flatten([i \in 1..n |-> ConstituentBytes]))

DependentsBytes(n) ==
    << 0, 0 >> \o PackS16(n)
    \o (IF n = 0 THEN << 0, 0, 0, 0 >>
        ELSE Preamble(n) \o Flatten([i \in 1..n |-> Bstr(<< 76 >>)])
             \o Preamble(n) \o Flatten([i \in 1..n |-> PackS32(3)]))

CalEntryBytes(type) == PackU8(type) \o PackS(<< 110, 109 >>, 20) \o PackS32(8) \o PackS16(1) \o PackS16(2)

CalibrationBytes(types, channels) ==
    PackU8(Len(types)) \o Flatten([i \in 1..Len(types) |-> CalEntryBytes(types[i])])
    \o Flatten([i \in 1..Len(types) |-> SpectrumBytes(channels, 100 + 10 * i)])

\* one audit event, x being the bytes between its tags
EventBytes(x) == OpenTag \o x \o CloseTag

AuditBytes(count, events) ==
    PackS32(count)
    \o (IF count > 0
        THEN Preamble(count) \o Flatten([i \in 1..Len(events) |-> Bstr(EventBytes(events[i]))])
        ELSE << >>)

SignatureBytes == << 0 >> \o Zeros(8) \o Zeros(2 * 7) \o [i \in 1..SignatureBlobSize |-> 200]

Trailer == << 255, 254, 253 >>

\* the description of a well-formed file
Desc(v, channels, types, count, events, bom) ==
    [v |-> v, channels |-> channels, month |-> 0, year |-> 100, flag |-> << 255, 255 >>,
     ncons |-> 1, ndep |-> 1, types |-> types, count |-> count, events |-> events, bom |-> bom]

FileBytes(d) ==
    VersionBytes(d.v) \o MetaBytes(d.channels, WhenOf(d.month, d.year)) \o SpectrumBytes(d.channels, 0)
    \o (IF d.v >= 2 THEN RefHeaderBytes(d.flag) \o SpectrumBytes(d.channels, 50) ELSE << >>)
    \o (IF d.v >= 6 THEN ClassifierBytes(d.ncons) \o DependentsBytes(d.ndep) ELSE << >>)
    \o (IF d.v >= 7 THEN CalibrationBytes(d.types, d.channels) ELSE << >>)
    \o (IF d.v >= 8 THEN AuditBytes(d.count, d.events) \o SignatureBytes ELSE << >>)
    \o (IF d.bom THEN Trailer ELSE << >>)

\* the first n bytes of a file
Truncated(b, n) == SubSeq(b, 1, n)


F_v1 == FileBytes(Desc(1, 1, << >>, 0, << >>, FALSE))
F_v2 == FileBytes(Desc(2, 2, << >>, 0, << >>, FALSE))
F_v6 == FileBytes(Desc(6, 1, << >>, 0, << >>, FALSE))
F_v7 == FileBytes(Desc(7, 1, << 1, 2, 3 >>, 0, << >>, FALSE))
F_v8bom == FileBytes(Desc(8, 1, << 0 >>, 2, << << 97 >>, << 98 >> >>, TRUE))
F_v8audit0 == FileBytes(Desc(8, 1, << 1 >>, 0, << >>, FALSE))
F_v7type4 == FileBytes(Desc(7, 1, << 1, 4 >>, 0, << >>, FALSE))
F_v7dup == FileBytes(Desc(7, 1, << 2, 2 >>, 0, << >>, FALSE))
F_v2badBool == FileBytes([Desc(2, 1, << >>, 0, << >>, FALSE) EXCEPT !.flag = << 1, 0 >>])
F_v1short == Truncated(FileBytes(Desc(1, 2, << >>, 0, << >>, FALSE)), 3 + MetadataSize + 13)
F_v1metaCut == Truncated(F_v1, 400)
F_v6consCut == Truncated(F_v6, Len(F_v6) - Len(DependentsBytes(1)) - 20)
F_xyz == << 120, 121, 122 >> \o SubSeq(F_v1, 4, Len(F_v1))
\* the month field of `When` is 12, one past December
F_v1badMonth == FileBytes([Desc(1, 1, << >>, 0, << >>, FALSE) EXCEPT !.month = 12])
\* one audit event whose text holds U+00E9 (the bytes C3 A9)
F_v8utf8 == FileBytes(Desc(8, 1, << 0 >>, 1, << << 195, 169 >> >>, FALSE))
\* the audit count is 3, two events follow
F_v8count3 == FileBytes(Desc(8, 1, << 0 >>, 3, << << 97 >>, << 98 >> >>, FALSE))
\* three channels, one in each splice segment; the reference time is 1 and
\* the second channel of the reference spectrum is 0.0
F_v2ref ==
    Splice(Splice(FileBytes(Desc(2, 3, << >>, 0, << >>, FALSE)), 3 + 184, PackS32(1)),
           3 + MetadataSize + 3 * 8 + Len(RefHeaderBytes(<< 255, 255 >>)) + 8, Zeros(8))

\* the wavelengthStep of the header is 0
F_v1step0 == Splice(F_v1, 3 + 192, PackS32(0))

\* a version 6 file without dependent variables that ends after the count of
\* the dependents: the 4 bytes that follow a count of 0 are missing
F_v6depCut ==
    Truncated(FileBytes([Desc(6, 1, << >>, 0, << >>, FALSE) EXCEPT !.ndep = 0]),
              Len(F_v6) - Len(DependentsBytes(1)) + 4)

\* the files on disk, by path; the path 0 names no file
\* the year of the `When` record is 2000 on disk, not 100
F_v1year2000 == FileBytes([Desc(1, 1, << >>, 0, << >>, FALSE) EXCEPT !.year = 2000])

\* a version 7 file that ends inside its classifier section: the sections
\* that follow find no offset
F_v7consCut == VersionBytes(7) \o SubSeq(F_v6consCut, 4, Len(F_v6consCut))

NumFiles == 21
Files ==
    [p \in 1..NumFiles |->
        CASE p = 1 -> F_v1 [] p = 2 -> F_v2 [] p = 3 -> F_v6 [] p = 4 -> F_v7
          [] p = 5 -> F_v8bom [] p = 6 -> F_v8audit0 [] p = 7 -> F_v7type4 [] p = 8 -> F_v7dup
          [] p = 9 -> F_v2badBool [] p = 10 -> F_v1short [] p = 11 -> F_v1metaCut
          [] p = 12 -> F_v6consCut [] p = 13 -> F_xyz [] p = 14 -> F_v1badMonth
          [] p = 15 -> F_v8utf8 [] p = 16 -> F_v8count3 [] p = 17 -> F_v2ref
          [] p = 18 -> F_v1step0 [] p = 19 -> F_v6depCut
          [] p = 20 -> F_v1year2000 [] p = 21 -> F_v7consCut]
NoFile == 0
Paths == {NoFile} \cup (1..NumFiles)

HasTrailer(b) == Len(b) >= 3 /\ SubSeq(b, Len(b) - 2, Len(b)) = Trailer

\* the buffer read keeps of a file: its bytes without the trailer
StreamOf(b) == IF HasTrailer(b) THEN SubSeq(b, 1, Len(b) - 3) ELSE b


(***************************************************************************)
(* The state: the attributes of one ASDFile object, the file at the        *)
(* destination path of write, and what the last calls returned: lastField  *)
(* is the field name of the last call when it was update, accessResult     *)
(* what the last call returned when it was an accessor, readRaised that an *)
(* exception left the last read instead of a return value.                 *)
(***************************************************************************)
VARIABLES asdFileVersion, metadata, spectrumData, referenceFileHeader, referenceData,
          classifierData, dependants, calibrationHeader, calibrationSeriesABS,
          calibrationSeriesBSE, calibrationSeriesLMP, calibrationSeriesFO, auditLog,
          signature, asdFileStream, wavelengths, bom,
          outFile, lastOp, lastPath, readSuccess, readRaised, readTrace, writeResult, emitted,
          updateResult, lastField, accessResult, nOps

aggVars == << asdFileVersion, metadata, spectrumData, referenceFileHeader, referenceData,
              classifierData, dependants, calibrationHeader, calibrationSeriesABS,
              calibrationSeriesBSE, calibrationSeriesLMP, calibrationSeriesFO, auditLog,
              signature, asdFileStream, wavelengths, bom >>

vars == << asdFileVersion, metadata, spectrumData, referenceFileHeader, referenceData,
           classifierData, dependants, calibrationHeader, calibrationSeriesABS,
           calibrationSeriesBSE, calibrationSeriesLMP, calibrationSeriesFO, auditLog,
           signature, asdFileStream, wavelengths, bom,
           outFile, lastOp, lastPath, readSuccess, readRaised, readTrace, writeResult, emitted,
           updateResult, lastField, accessResult, nOps >>

\* the object as one record
Agg ==
    [asdFileVersion |-> asdFileVersion, metadata |-> metadata, spectrumData |-> spectrumData,
     referenceFileHeader |-> referenceFileHeader, referenceData |-> referenceData,
     classifierData |-> classifierData, dependants |-> dependants,
     calibrationHeader |-> calibrationHeader, calibrationSeriesABS |-> calibrationSeriesABS,
     calibrationSeriesBSE |-> calibrationSeriesBSE, calibrationSeriesLMP |-> calibrationSeriesLMP,
     calibrationSeriesFO |-> calibrationSeriesFO, auditLog |-> auditLog, signature |-> signature,
     asdFileStream |-> asdFileStream, wavelengths |-> wavelengths, bom |-> bom]

SetAgg(a) ==
    /\ asdFileVersion' = a.asdFileVersion
    /\ metadata' = a.metadata
    /\ spectrumData' = a.spectrumData
    /\ referenceFileHeader' = a.referenceFileHeader
    /\ referenceData' = a.referenceData
    /\ classifierData' = a.classifierData
    /\ dependants' = a.dependants
    /\ calibrationHeader' = a.calibrationHeader
    /\ calibrationSeriesABS' = a.calibrationSeriesABS
    /\ calibrationSeriesBSE' = a.calibrationSeriesBSE
    /\ calibrationSeriesLMP' = a.calibrationSeriesLMP
    /\ calibrationSeriesFO' = a.calibrationSeriesFO
    /\ auditLog' = a.auditLog
    /\ signature' = a.signature
    /\ asdFileStream' = a.asdFileStream
    /\ wavelengths' = a.wavelengths
    /\ bom' = a.bom

\* what an accessor gave: kind is "value" for a returned array or list,
\* "None" for a returned None, "raised" for an exception, and "none" when
\* the last call was no accessor
Access(kind, val) == [kind |-> kind, val |-> val]
NoAccess == Access("none", << >>)

\* ASDFile.__init__; __bom is no attribute yet, __getattr__ answers None
Init ==
    /\ asdFileVersion = 0
    /\ metadata = NoneRec
    /\ spectrumData = NoneRec
    /\ referenceFileHeader = NoneRec
    /\ referenceData = NoneRec
    /\ classifierData = NoneRec
    /\ dependants = NoneRec
    /\ calibrationHeader = NoneRec
    /\ calibrationSeriesABS = NoneRec
    /\ calibrationSeriesBSE = NoneRec
    /\ calibrationSeriesLMP = NoneRec
    /\ calibrationSeriesFO = NoneRec
    /\ auditLog = NoneRec
    /\ signature = NoneRec
    /\ asdFileStream = NoneRec
    /\ wavelengths = NoneRec
    /\ bom = NoneRec
    /\ outFile = NoneRec
    /\ lastOp = "init"
    /\ lastPath = NoFile
    /\ readSuccess = FALSE
    /\ readRaised = FALSE
    /\ readTrace = << >>
    /\ writeResult = "none"
    /\ emitted = << >>
    /\ updateResult = "none"
    /\ lastField = "none"
    /\ accessResult = NoAccess
    /\ nOps = 0

(***************************************************************************)
(* ASDFile.read                                                            *)
(***************************************************************************)
\* np.arange(start, start + channels * step, step)
Arange(start, channels, step) == [i \in 1..channels |-> start + (i - 1) * step]

\* lines 73-82: load the file, strip and remember the trailer; a path that
\* names no file leaves the buffer of the previous read
LoadStream(a, path) ==
    IF path = NoFile THEN a
    ELSE [a EXCEPT !.asdFileStream = Some(StreamOf(Files[path])),
                   !.bom = IF HasTrailer(Files[path]) THEN Some(Trailer) ELSE @]

ChannelsOf(a) == IF IsNone(a.metadata) THEN 0 ELSE Get(a.metadata).channels

IsOffset(off) == off >= 0

\* the statement `offset = self.__parse_X(offset)` without the try/except
\* around it: the exception of the decoder leaves read
ReadSection_uncaught(st, section, r) ==
    [ag |-> IF ~r.raised /\ ~IsNone(r.val) THEN [st.ag EXCEPT ![section] = r.val] ELSE st.ag,
     off |-> IF r.raised THEN st.off ELSE r.off,
     raised |-> st.raised \/ r.raised,
     trace |-> Append(st.trace,
                      [section |-> section, start |-> st.off,
                       ret |-> IF r.raised THEN st.off ELSE r.off,
                       failed |-> r.raised \/ ~IsOffset(r.off),
                       blocks |-> 0])]

\* one statement `offset = self.__parse_X(offset)` inside try/except, r being
\* what the decoder did: the decoder assigns its record; an exception is
\* caught by `except Exception`, logged, and leaves offset as it was
ReadSection(st, section, r) ==
    [ag |-> IF ~r.raised /\ ~IsNone(r.val) THEN [st.ag EXCEPT ![section] = r.val] ELSE st.ag,
     off |-> IF r.raised THEN st.off ELSE r.off,
     raised |-> st.raised,
     trace |-> Append(st.trace,
                      [section |-> section, start |-> st.off,
                       ret |-> IF r.raised THEN st.off ELSE r.off,
                       failed |-> r.raised \/ ~IsOffset(r.off),
                       blocks |-> 0])]

\* line 89
ReadMetadata(st) ==
    ReadSection(st, "metadata", parse_metadata(Get(st.ag.asdFileStream), st.off))

\* line 90
SetWavelengths(st) ==
    [st EXCEPT !.ag.wavelengths = Some(Arange(Get(st.ag.metadata).channel1Wavelength,
                                              Get(st.ag.metadata).channels,
                                              Get(st.ag.metadata).wavelengthStep))]

\* line 91
ReadSpectrumData(st) ==
    ReadSection(st, "spectrumData",
                parse_spectrumData(Get(st.ag.asdFileStream), st.off, ChannelsOf(st.ag)))

\* lines 90-93, s1 being the state after line 89: reading an attribute of a
\* metadata that is None, and np.arange with a step of 0, raise
AfterMetadata(s1) ==
    IF IsNone(s1.ag.metadata) THEN s1
    ELSE IF Get(s1.ag.metadata).wavelengthStep = 0 THEN s1
    ELSE ReadSpectrumData(SetWavelengths(s1))

\* lines 87-93
ReadMetadataSpectrum(st) ==
    IF st.ag.asdFileVersion > 0 THEN AfterMetadata(ReadMetadata(st)) ELSE st

\* line 98
ReadReferenceFileHeader(st) ==
    ReadSection(st, "referenceFileHeader",
                parse_referenceFileHeader(Get(st.ag.asdFileStream), st.off))

\* line 100
ReadReferenceData(st) ==
    ReadSection(st, "referenceData",
                parse_spectrumData(Get(st.ag.asdFileStream), st.off, ChannelsOf(st.ag)))

\* lines 95-103
ReadReference(st) ==
    IF st.ag.asdFileVersion >= 2 THEN ReadReferenceData(ReadReferenceFileHeader(st)) ELSE st

\* line 108
ReadClassifierData(st) ==
    ReadSection(st, "classifierData", parse_classifierData(Get(st.ag.asdFileStream), st.off))

\* line 110
ReadDependants(st) ==
    ReadSection(st, "dependants", parse_dependentVariables(Get(st.ag.asdFileStream), st.off))

\* lines 105-113
ReadClassifier(st) ==
    IF st.ag.asdFileVersion >= 6 THEN ReadDependants(ReadClassifierData(st)) ELSE st

\* line 118
ReadCalibrationHeader(st) ==
    ReadSection(st, "calibrationHeader", parse_calibrationHeader(Get(st.ag.asdFileStream), st.off))

\* the attribute that holds the spectrum of a calibration type
SlotOf(cbtype) ==
    CASE cbtype = 0 -> "calibrationSeriesABS"
      [] cbtype = 1 -> "calibrationSeriesBSE"
      [] cbtype = 2 -> "calibrationSeriesLMP"
      [] cbtype = 3 -> "calibrationSeriesFO"

\* lines 125-133: one spectrum block per header entry of type 0..3; the
\* loop ends when unpacking the result of __parse_spectra raises
RECURSIVE ReadCalibrationLoop(_, _, _)
ReadCalibrationLoop(cs, series, i) ==
    IF i > Len(series) THEN cs
    ELSE IF series[i].cbtype \notin 0..3 THEN ReadCalibrationLoop(cs, series, i + 1)
    ELSE LET s == parse_spectra(Get(cs.ag.asdFileStream), cs.off, ChannelsOf(cs.ag))
         IN IF s.kind \in {"raise", "skip"} THEN [cs EXCEPT !.failed = TRUE]
            ELSE ReadCalibrationLoop(
                    [ag |-> [cs.ag EXCEPT ![SlotOf(series[i].cbtype)] = s.spectra],
                     off |-> s.off,
                     failed |-> cs.failed \/ s.kind = "fail",
                     blocks |-> cs.blocks + (IF s.kind = "ok" THEN 1 ELSE 0)],
                    series, i + 1)

\* the state of read after the loop, cs being the outcome of the loop
AfterCalibrationLoop(st, cs) ==
    [ag |-> cs.ag, off |-> cs.off, raised |-> st.raised,
     trace |-> Append(st.trace,
                      [section |-> "calibrationSeries", start |-> st.off, ret |-> cs.off,
                       failed |-> cs.failed, blocks |-> cs.blocks])]

\* lines 122-137
ReadCalibrationSeries(st) ==
    IF IsNone(st.ag.calibrationHeader) THEN st
    ELSE IF Get(st.ag.calibrationHeader).calibrationNum <= 0 THEN st
    ELSE AfterCalibrationLoop(st,
            ReadCalibrationLoop([ag |-> st.ag, off |-> st.off, failed |-> FALSE, blocks |-> 0],
                                Get(st.ag.calibrationHeader).calibrationSeries, 1))

\* lines 115-137
ReadCalibration(st) ==
    IF st.ag.asdFileVersion >= 7 THEN ReadCalibrationSeries(ReadCalibrationHeader(st)) ELSE st

\* line 143
ReadAuditLog(st) ==
    ReadSection(st, "auditLog", parse_auditLog(Get(st.ag.asdFileStream), st.off))

\* line 145
ReadSignature(st) ==
    ReadSection(st, "signature", parse_signature(Get(st.ag.asdFileStream), st.off))

\* lines 139-148
ReadAudit(st) ==
    IF st.ag.asdFileVersion >= 8 THEN ReadSignature(ReadAuditLog(st)) ELSE st

\* line 85, a1 being the object with the buffer loaded: the version, and the
\* offset 3 that __validate_fileVersion returns
StartRead(a1) ==
    [ag |-> [a1 EXCEPT !.asdFileVersion = validate_fileVersion(a1.asdFileStream)],
     off |-> 3, raised |-> FALSE, trace |-> << >>]

\* lines 150-152
EndRead(st) ==
    [ag |-> st.ag, trace |-> st.trace, raised |-> st.raised,
     readSuccess |-> st.ag.asdFileVersion > 0]

\* ASDFile.read
read(a0, path) ==
    EndRead(ReadAudit(ReadCalibration(ReadClassifier(ReadReference(
        ReadMetadataSpectrum(StartRead(LoadStream(a0, path))))))))

Read(path) ==
    /\ nOps < MaxOps
    /\ \E r \in {read(Agg, path)} :
          /\ SetAgg(r.ag)
          /\ readSuccess' = (r.readSuccess /\ ~r.raised)
          /\ readRaised' = r.raised
          /\ readTrace' = r.trace
    /\ lastOp' = "read"
    /\ lastPath' = path
    /\ lastField' = "none"
    /\ accessResult' = NoAccess
    /\ nOps' = nOps + 1
    /\ UNCHANGED << outFile, writeResult, emitted, updateResult >>


(***************************************************************************)
(* ASDFile.update                                                          *)
(***************************************************************************)
\* the fields of the metadata record that the model lets update replace,
\* a name that is no field, and the values
UpdateFields == {"channels", "dataType", "bogus", "channel1Wavelength", "wavelengthStep"}
UpdateValues == {0, 2}
\* values given to flags2: no bit, bits 0x01 and 0x08, the bits 0x20..0x80
\* alone (0xE0 as a signed byte) and every bit (0xFF as a signed byte)
FlagValues == {0, 9, -32, -1}
UpdateInputs == {in \in UpdateFields \X UpdateValues : in[2] = 2 \/ in[1] = "wavelengthStep"}
                \cup ({"flags2"} \X FlagValues)
MetadataFields == {"comments", "when", "daylighSavingsFlag", "dataType", "referenceTime",
                   "channel1Wavelength", "wavelengthStep", "channels", "intergrationTime_ms",
                   "flags2", "swir1Gain", "swir2Gain",
                   "splice1_wavelength", "splice2_wavelength"}
WavelengthFields == {"channel1Wavelength", "channels", "wavelengthStep"}

\* ASDFile.update: raised is the ValueError of an unknown field, or the
\* AttributeError of reading self.metadata.channel1Wavelength of None
update(a, field_name, new_value) ==
    IF ~IsNone(a.metadata) /\ field_name \notin MetadataFields
    THEN [ag |-> a, raised |-> TRUE]
    ELSE LET a1 == IF IsNone(a.metadata) THEN a
                   ELSE [a EXCEPT !.metadata = Some([Get(a.metadata) EXCEPT ![field_name] = new_value])]
         IN IF field_name \notin WavelengthFields THEN [ag |-> a1, raised |-> FALSE]
            ELSE IF IsNone(a1.metadata) THEN [ag |-> a1, raised |-> TRUE]
            ELSE IF Get(a1.metadata).wavelengthStep = 0 THEN [ag |-> a1, raised |-> TRUE]
            ELSE [ag |-> [a1 EXCEPT !.wavelengths =
                                Some(Arange(Get(a1.metadata).channel1Wavelength,
                                            Get(a1.metadata).channels,
                                            Get(a1.metadata).wavelengthStep))],
                  raised |-> FALSE]

Update(field_name, new_value) ==
    /\ nOps < MaxOps
    /\ \E u \in {update(Agg, field_name, new_value)} :
          /\ SetAgg(u.ag)
          /\ updateResult' = IF u.raised THEN "raised" ELSE "ok"
    /\ lastOp' = "update"
    /\ lastField' = field_name
    /\ accessResult' = NoAccess
    /\ nOps' = nOps + 1
    /\ UNCHANGED << outFile, lastPath, readSuccess, readRaised, readTrace, writeResult, emitted >>

(***************************************************************************)
(* ASDFile.write                                                           *)
(***************************************************************************)
\* one section of write, w being what its wrapper returned:
\* `bytes, byteLength = self.__wrap_X()`, the update of the local offset and
\* fileHandle.write(bytes).  A wrapper that failed returned None for the
\* bytes and the statement raises; so does `offset += byteLength` when offset
\* was never bound (asdFileVersion <= 0)
Emit(ws, section, w) ==
    IF ws.raised THEN ws
    ELSE IF ~w.ok \/ ~ws.bound THEN [ws EXCEPT !.raised = TRUE]
    ELSE [ws EXCEPT !.out = @ \o w.bytes,
                    !.emitted = Append(@, [section |-> section, len |-> Len(w.bytes)])]

\* line 176: the destination is open and empty
StartWrite(a) ==
    [out |-> << >>, emitted |-> << >>, raised |-> FALSE, bound |-> a.asdFileVersion > 0]

\* lines 177-179
WriteVersion(a, ws) ==
    IF a.asdFileVersion > 0
    THEN Emit(ws, "version", WrapOk(setFileVersion(a.asdFileVersion)))
    ELSE ws

\* lines 180-184
WriteMetadata(a, ws) ==
    IF ~IsNone(a.metadata) THEN Emit(ws, "metadata", wrap_metadata(Get(a.metadata))) ELSE ws

\* lines 185-189
WriteSpectrumData(a, ws) ==
    IF ~IsNone(a.spectrumData)
    THEN Emit(ws, "spectrumData", wrap_spectra(Get(a.spectrumData).spectra, ChannelsOf(a)))
    ELSE ws

\* lines 191-195
WriteReferenceFileHeader(a, ws) ==
    IF ~IsNone(a.referenceFileHeader)
    THEN Emit(ws, "referenceFileHeader", wrap_referenceFileHeader(Get(a.referenceFileHeader)))
    ELSE ws

\* lines 196-200
WriteReferenceData(a, ws) ==
    IF ~IsNone(a.referenceData)
    THEN Emit(ws, "referenceData", wrap_spectra(Get(a.referenceData).spectra, ChannelsOf(a)))
    ELSE ws

\* lines 201-205
WriteClassifierData(a, ws) ==
    IF ~IsNone(a.classifierData)
    THEN Emit(ws, "classifierData", wrap_classifierData(Get(a.classifierData)))
    ELSE ws

\* lines 206-210
WriteDependants(a, ws) ==
    IF ~IsNone(a.dependants)
    THEN Emit(ws, "dependants", wrap_dependentVariables(Get(a.dependants)))
    ELSE ws

\* lines 212-216
WriteCalibrationHeader(a, ws) ==
    IF ~IsNone(a.calibrationHeader)
    THEN Emit(ws, "calibrationHeader", wrap_calibrationHeader(Get(a.calibrationHeader)))
    ELSE ws

\* lines 218-238: one spectrum block per header entry of type 0..3
RECURSIVE WriteCalibrationLoop(_, _, _)
WriteCalibrationLoop(ws, a, i) ==
    IF i > Get(a.calibrationHeader).calibrationNum \/ ws.raised THEN ws
    ELSE IF Get(a.calibrationHeader).calibrationSeries[i].cbtype \notin 0..3
    THEN WriteCalibrationLoop(ws, a, i + 1)
    ELSE WriteCalibrationLoop(
            Emit(ws, SlotOf(Get(a.calibrationHeader).calibrationSeries[i].cbtype),
                 wrap_spectra(a[SlotOf(Get(a.calibrationHeader).calibrationSeries[i].cbtype)],
                              ChannelsOf(a))),
            a, i + 1)

\* lines 217-238
WriteCalibrationSeries(a, ws) ==
    IF ~IsNone(a.calibrationHeader) THEN WriteCalibrationLoop(ws, a, 1) ELSE ws

\* lines 239-248
WriteAudit(a, ws) ==
    IF a.asdFileVersion >= 8
    THEN Emit(Emit(ws, "auditLog", wrap_auditLog(a.auditLog)),
              "signature", wrap_signature(a.signature))
    ELSE ws

\* lines 211-248
WriteCalibration(a, ws) ==
    IF a.asdFileVersion >= 7
    THEN WriteAudit(a, WriteCalibrationSeries(a, WriteCalibrationHeader(a, ws)))
    ELSE ws

\* lines 190-248
WriteReference(a, ws) ==
    IF ~IsNone(a.spectrumData) /\ a.asdFileVersion >= 2
    THEN WriteCalibration(a, WriteDependants(a, WriteClassifierData(a,
             WriteReferenceData(a, WriteReferenceFileHeader(a, ws)))))
    ELSE ws

\* lines 250-251
WriteBom(a, ws) ==
    IF ws.raised \/ IsNone(a.bom) THEN ws
    ELSE [ws EXCEPT !.out = @ \o Get(a.bom),
                    !.emitted = Append(@, [section |-> "bom", len |-> Len(Get(a.bom))])]

\* lines 176-251: what write puts into the file it has opened
write(a) ==
    WriteBom(a, WriteReference(a, WriteSpectrumData(a, WriteMetadata(a,
        WriteVersion(a, StartWrite(a))))))

\* ASDFile.write: the destination is removed, opened for writing, filled and
\* closed; an exception leaves the bytes written so far
Write ==
    /\ nOps < MaxOps
    /\ \E w \in {write(Agg)} :
          /\ outFile' = Some(w.out)
          /\ emitted' = w.emitted
          /\ writeResult' = IF w.raised THEN "raised" ELSE "True"
    /\ lastOp' = "write"
    /\ lastField' = "none"
    /\ accessResult' = NoAccess
    /\ nOps' = nOps + 1
    /\ UNCHANGED aggVars
    /\ UNCHANGED << lastPath, readSuccess, readRaised, readTrace, updateResult >>

(***************************************************************************)
(* The accessors.  __normalise_spectrum is that of asdFileHandle.py.  The  *)
(* reflectance property of asdFileHandle.py is unfinished (an `if` without *)
(* a body, lines 890-899) and the file has no saturation decoder: both are *)
(* those of __test__asdFileHandle_2.py, the development copy of the class. *)
(***************************************************************************)
\* a & b of Python for naturals
RECURSIVE BitAnd(_, _)
BitAnd(a, b) ==
    IF a = 0 \/ b = 0 THEN 0 ELSE (a % 2) * (b % 2) + 2 * BitAnd(a \div 2, b \div 2)

\* the bits of metadata.flags2
flag1_vnir_saturation == 1
flag1_swir1_saturation == 2
flag1_swir2_saturation == 4
Tec1_alarm == 8
Tec2_alarm_as_Tec1 == Tec1_alarm
Tec2_alarm == 16

\* a test of the flag that compares flags2 with the mask instead of taking
\* the bit
FlagError_threshold(flags2, mask, name) ==
    IF flags2 % 256 >= mask THEN << name >> ELSE << >>

\* `if self.metadata.flags2 & mask: errors.append(name)`; flags2 is a signed
\* byte, and the masks lie in its low eight bits
FlagError(flags2, mask, name) ==
    IF BitAnd(flags2 % 256, mask) # 0 THEN << name >> ELSE << >>

\* ASDFile.__checkSaturationError
checkSaturationError(md) ==
    FlagError(md.flags2, flag1_vnir_saturation, "VNIR saturation")
    \o FlagError(md.flags2, flag1_swir1_saturation, "SWIR1 saturation")
    \o FlagError(md.flags2, flag1_swir2_saturation, "SWIR2 saturation")
    \o FlagError(md.flags2, Tec1_alarm, "TEC1 Alarm")
    \o FlagError(md.flags2, Tec2_alarm, "TEC2 Alarm")

\* the decoder called on the object: reading flags2 of a metadata that is
\* None raises AttributeError
CheckSaturationError ==
    /\ nOps < MaxOps
    /\ accessResult' = IF IsNone(metadata) THEN Access("raised", << >>)
                       ELSE Access("value", checkSaturationError(Get(metadata)))
    /\ lastOp' = "checkSaturationError"
    /\ lastField' = "none"
    /\ nOps' = nOps + 1
    /\ UNCHANGED aggVars
    /\ UNCHANGED << outFile, lastPath, readSuccess, readRaised, readTrace, writeResult, emitted, updateResult >>

\* the gain of the third segment as __test__asdFileHandle_2.py has it
ThirdSegmentGain_swir2(md) == md.swir2Gain

\* the gain asdFileHandle.py applies to the channels from splice2_index on
ThirdSegmentGain(md) == md.swir1Gain

\* ASDFile.__normalise_spectrum, spec being the doubles of a spectrum: the
\* three slice assignments, of which the last one wins
normalise_spectrum(spec, md) ==
    [i \in 1..Len(spec) |->
        IF i - 1 >= md.splice2_wavelength
        THEN RatDiv(RatMul(UnpackDouble(spec[i]), ThirdSegmentGain(md)), 2048)
        ELSE IF i - 1 < md.splice1_wavelength
        THEN RatDiv(UnpackDouble(spec[i]), md.intergrationTime_ms)
        ELSE RatDiv(RatMul(UnpackDouble(spec[i]), md.swir1Gain), 2048)]

\* the spectrum can be normalised in the arithmetic of the model
Normalisable(spectrum, md) ==
    /\ \A i \in 1..Len(spectrum) : IsModelDouble(spectrum[i])
    /\ md.intergrationTime_ms > 0
    /\ md.splice1_wavelength >= 0
    /\ md.splice2_wavelength >= 0

\* __normalise_spectrum(self.spectrumData.spectra, self.metadata): spec.copy()
\* of a spectrum that is None, and reading a field of a metadata that is
\* None, raise AttributeError
NormaliseSpectrum ==
    /\ nOps < MaxOps
    /\ IF IsNone(spectrumData) \/ IsNone(metadata)
       THEN accessResult' = Access("raised", << >>)
       ELSE IF IsNone(Get(spectrumData).spectra)
       THEN accessResult' = Access("raised", << >>)
       ELSE /\ Normalisable(Get(Get(spectrumData).spectra), Get(metadata))
            /\ accessResult' = Access("value", normalise_spectrum(Get(Get(spectrumData).spectra),
                                                                  Get(metadata)))
    /\ lastOp' = "normalise"
    /\ lastField' = "none"
    /\ nOps' = nOps + 1
    /\ UNCHANGED aggVars
    /\ UNCHANGED << outFile, lastPath, readSuccess, readRaised, readTrace, writeResult, emitted, updateResult >>

\* ASDFile.reflectance.  Below version 2 the property returns None.  From
\* version 2 on the body runs inside try/except and every path through it
\* raises: metadata.referenceTime is the datetime that __parse_metadata made
\* of the timestamp and `referenceTime > 0` raises TypeError (AttributeError
\* when metadata is None); were the comparison to go through,
\* __normalise_spectrum(self.referenceData, self.metadata) passes two
\* arguments to a method of one, and the else branch leaves `reflectance`
\* unbound.  The except branch returns None
reflectance(a) ==
    IF a.asdFileVersion >= 2
    THEN Access("None", << >>)
    ELSE Access("None", << >>)

Reflectance ==
    /\ nOps < MaxOps
    /\ accessResult' = reflectance(Agg)
    /\ lastOp' = "reflectance"
    /\ lastField' = "none"
    /\ nOps' = nOps + 1
    /\ UNCHANGED aggVars
    /\ UNCHANGED << outFile, lastPath, readSuccess, readRaised, readTrace, writeResult, emitted, updateResult >>

\* a radiance whose product of the spectra goes through: a value whenever
\* the header counts 3 entries and the lamp series is there
radiance_product(a) ==
    IF a.asdFileVersion >= 7 /\ ~IsNone(a.calibrationHeader)
    THEN IF Get(a.calibrationHeader).calibrationNum >= 3 /\ ~IsNone(a.calibrationSeriesLMP)
         THEN Access("value", Get(a.calibrationSeriesLMP))
         ELSE Access("raised", << >>)
    ELSE Access("None", << >>)

\* ASDFile.radiance (__test__asdFileHandle_2.py).  The product
\* calibrationSeriesLMP * referenceData * spectrumData multiplies an array by
\* the records (spectra, byteStream, byteStreamLength) that read stored, which
\* raises inside the try; the except branch returns None, as it does for the
\* AttributeError of a calibrationHeader that is None.  `return radiance`
\* stands after the `if` and outside the try: below version 7, with fewer
\* than 3 calibration entries, and when neither set of slots is populated,
\* the name is unbound and the UnboundLocalError leaves the property
radiance(a) ==
    IF a.asdFileVersion >= 7
    THEN IF IsNone(a.calibrationHeader) THEN Access("None", << >>)
         ELSE IF Get(a.calibrationHeader).calibrationNum >= 3
         THEN IF ~IsNone(a.calibrationSeriesABS) /\ ~IsNone(a.calibrationSeriesLMP)
              THEN Access("None", << >>)
              ELSE IF ~IsNone(a.calibrationSeriesBSE) /\ ~IsNone(a.calibrationSeriesLMP)
                      /\ ~IsNone(a.calibrationSeriesFO)
              THEN Access("None", << >>)
              ELSE Access("raised", << >>)
         ELSE Access("raised", << >>)
    ELSE Access("raised", << >>)

Radiance ==
    /\ nOps < MaxOps
    /\ accessResult' = radiance(Agg)
    /\ lastOp' = "radiance"
    /\ lastField' = "none"
    /\ nOps' = nOps + 1
    /\ UNCHANGED aggVars
    /\ UNCHANGED << outFile, lastPath, readSuccess, readRaised, readTrace, writeResult, emitted, updateResult >>

\* spectra_type, the names of metadata.dataType
NumSpectraTypes == 9

\* ASDFile.get_radiance (asdFileHandle.py), reached as the attribute
\* `radiance` through __getattr__: metadata None raises AttributeError, a
\* dataType outside spectra_type IndexError, a dataType that is not 'RAD' the
\* TypeError of the else branch; for 'RAD' the attributes
\* calibrationSeries_lamp, reference and calibrationSeries_base do not exist,
\* __getattr__ answers None for them and None * None raises TypeError
get_radiance(a) ==
    IF IsNone(a.metadata) THEN Access("raised", << >>)
    ELSE IF Get(a.metadata).dataType \notin (-NumSpectraTypes)..(NumSpectraTypes - 1)
    THEN Access("raised", << >>)
    ELSE IF Get(a.metadata).dataType % NumSpectraTypes = 2 THEN Access("raised", << >>)
    ELSE Access("raised", << >>)

GetRadiance ==
    /\ nOps < MaxOps
    /\ accessResult' = get_radiance(Agg)
    /\ lastOp' = "get_radiance"
    /\ lastField' = "none"
    /\ nOps' = nOps + 1
    /\ UNCHANGED aggVars
    /\ UNCHANGED << outFile, lastPath, readSuccess, readRaised, readTrace, writeResult, emitted, updateResult >>

Next ==
    \/ \E path \in Paths : Read(path)
    \/ \E in \in UpdateInputs : Update(in[1], in[2])
    \/ Write
    \/ CheckSaturationError
    \/ NormaliseSpectrum
    \/ Reflectance
    \/ Radiance
    \/ GetRadiance

Spec == Init /\ [][Next]_vars

(***************************************************************************)
(* Vocabulary of the properties.                                           *)
(***************************************************************************)
PathOf(f) == CHOOSE p \in 1..NumFiles : Files[p] = f

\* the files that follow the format: every section the version mandates is
\* present and complete, the calibration types are of the enumeration
WellFormedPaths == {PathOf(F_v1), PathOf(F_v2), PathOf(F_v6), PathOf(F_v7), PathOf(F_v8bom),
                    PathOf(F_v8audit0), PathOf(F_v7dup), PathOf(F_v8utf8), PathOf(F_v2ref)}

SeriesSlots == {"calibrationSeriesABS", "calibrationSeriesBSE", "calibrationSeriesLMP",
                "calibrationSeriesFO"}

\* the first version of the format that has the section
MinVersion(section) ==
    CASE section \in {"version", "metadata", "spectrumData"} -> 1
      [] section \in {"referenceFileHeader", "referenceData"} -> 2
      [] section \in {"classifierData", "dependants"} -> 6
      [] section \in {"calibrationHeader", "calibrationSeries"} \cup SeriesSlots -> 7
      [] section \in {"auditLog", "signature"} -> 8
      [] OTHER -> 0

\* the records of the object, and the sections every file of a version has
Records == {"metadata", "spectrumData", "referenceFileHeader", "referenceData", "classifierData",
            "dependants", "calibrationHeader", "auditLog", "signature"} \cup SeriesSlots
Mandated(v) == {sec \in (Records \ SeriesSlots) \cup {"version"} : MinVersion(sec) <= v}

EmittedSections == {emitted[i].section : i \in 1..Len(emitted)}

\* the file starts with one of "ASD", "as2", ..., "as8"
Recognized(path) == Slice(Files[path], 0, 3) \in {VersionBytes(v) : v \in 1..8}

\* the last call was the first call on the object and read the file at path
FreshRead == nOps = 1 /\ lastOp = "read" /\ lastPath # NoFile

\* the object read one file and was then written
FreshReadThenWrite == nOps = 2 /\ lastOp = "write" /\ lastPath # NoFile

(***************************************************************************)
(* C1: round trip.  Reading a well-formed file into a fresh object and     *)
(* writing it produces a file that is byte for byte the input, trailer     *)
(* included.                                                               *)
(***************************************************************************)
C1_RoundTrip ==
    (FreshReadThenWrite /\ lastPath \in WellFormedPaths)
        => (writeResult = "True" /\ outFile = Some(Files[lastPath]))

(***************************************************************************)
(* C2: version gate on write.  Whatever calls came before, write emits no  *)
(* section whose first version is above the declared version of the        *)
(* object.                                                                 *)
(***************************************************************************)
C2_VersionGate ==
    lastOp = "write" =>
        \A i \in 1..Len(emitted) : MinVersion(emitted[i].section) <= asdFileVersion

(***************************************************************************)
(* C3: after read of a file of version k every record whose first version  *)
(* is above k is null, whatever the object decoded before.                 *)
(***************************************************************************)
C3_NullAboveVersion ==
    (lastOp = "read" /\ lastPath # NoFile /\ asdFileVersion >= 1)
        => \A sec \in Records : MinVersion(sec) > asdFileVersion => IsNone(Agg[sec])

(***************************************************************************)
(* C4: a corrupt Boolean (01 00) at the start of the reference header      *)
(* leaves referenceFileHeader unset, and read still decodes ReferenceData. *)
(***************************************************************************)
C4_CorruptBoolean ==
    (FreshRead /\ lastPath = PathOf(F_v2badBool))
        => (IsNone(referenceFileHeader) /\ ~IsNone(referenceData))

(***************************************************************************)
(* C5: a section whose decoder failed during read has its record unset     *)
(* after the read.                                                         *)
(***************************************************************************)
C5_FailedSectionUnset ==
    FreshRead =>
        \A i \in 1..Len(readTrace) :
            (readTrace[i].failed /\ readTrace[i].section \in Records)
                => IsNone(Agg[readTrace[i].section])

(***************************************************************************)
(* C6: when the input does not start with a recognized version string, or  *)
(* cannot be read at all, read does not return success and decodes no      *)
(* section.                                                                *)
(***************************************************************************)
C6_UnsupportedVersion ==
    (lastOp = "read" /\ (lastPath = NoFile \/ ~Recognized(lastPath)))
        => (~readSuccess /\ readTrace = << >>)

(***************************************************************************)
(* C7: a write that aborts leaves no partial file at the destination: no   *)
(* file, or at most an empty one.                                          *)
(***************************************************************************)
C7_NoPartialFile ==
    (lastOp = "write" /\ writeResult = "raised")
        => (IsNone(outFile) \/ Get(outFile) = << >>)

(***************************************************************************)
(* C8: write returns True only if the object has a valid version and every *)
(* section that version mandates was emitted.                              *)
(***************************************************************************)
C8_TrueOnlyWhenComplete ==
    (lastOp = "write" /\ writeResult = "True")
        => (asdFileVersion \in 1..8 /\ Mandated(asdFileVersion) \subseteq EmittedSections)

(***************************************************************************)
(* C9: calibration pairing.  For a version >= 7 object read consumes, and  *)
(* write emits, as many calibration spectrum blocks as the calibration     *)
(* header counts entries, each of channels * 8 bytes, whatever the type    *)
(* bytes of the entries are.                                               *)
(***************************************************************************)
C9_CalibrationPairing ==
    /\ (FreshRead /\ asdFileVersion >= 7 /\ ~IsNone(calibrationHeader))
          => \A i \in 1..Len(readTrace) :
                (readTrace[i].section = "calibrationSeries" /\ ~readTrace[i].failed)
                    => /\ readTrace[i].blocks = Get(calibrationHeader).calibrationNum
                       /\ readTrace[i].ret - readTrace[i].start
                             = Get(calibrationHeader).calibrationNum * ChannelsOf(Agg) * 8
    /\ (FreshReadThenWrite /\ writeResult = "True" /\ asdFileVersion >= 7
           /\ ~IsNone(calibrationHeader) /\ Get(calibrationHeader).calibrationNum >= 0)
          => /\ Cardinality({i \in 1..Len(emitted) : emitted[i].section \in SeriesSlots})
                   = Get(calibrationHeader).calibrationNum
             /\ \A i \in 1..Len(emitted) :
                   emitted[i].section \in SeriesSlots => emitted[i].len = ChannelsOf(Agg) * 8

(***************************************************************************)
(* C10 as stated: the decoder advances by, and the encoder emits,          *)
(* 1 + 30 * N bytes for a calibration header of N entries.                 *)
(***************************************************************************)
C10_ThirtyBytesPerEntry ==
    /\ (FreshRead /\ ~IsNone(calibrationHeader) /\ Get(calibrationHeader).calibrationNum >= 0)
          => \A i \in 1..Len(readTrace) :
                (readTrace[i].section = "calibrationHeader" /\ ~readTrace[i].failed)
                    => readTrace[i].ret - readTrace[i].start
                          = 1 + 30 * Get(calibrationHeader).calibrationNum
    /\ (lastOp = "write" /\ ~IsNone(calibrationHeader) /\ Get(calibrationHeader).calibrationNum >= 0)
          => \A i \in 1..Len(emitted) :
                emitted[i].section = "calibrationHeader"
                    => emitted[i].len = 1 + 30 * Get(calibrationHeader).calibrationNum

(***************************************************************************)
(* C10 amended: the calibration header occupies 1 + 29 * N bytes for a     *)
(* count byte N of 0..127: the decoder advances by 29 bytes per entry and  *)
(* the encoder emits 29 bytes per entry, 88 bytes for three entries.       *)
(***************************************************************************)
C10_TwentyNineBytesPerEntry ==
    /\ (FreshRead /\ ~IsNone(calibrationHeader) /\ Get(calibrationHeader).calibrationNum >= 0)
          => \A i \in 1..Len(readTrace) :
                (readTrace[i].section = "calibrationHeader" /\ ~readTrace[i].failed)
                    => readTrace[i].ret - readTrace[i].start
                          = 1 + 29 * Get(calibrationHeader).calibrationNum
    /\ (lastOp = "write" /\ ~IsNone(calibrationHeader) /\ Get(calibrationHeader).calibrationNum >= 0)
          => \A i \in 1..Len(emitted) :
                emitted[i].section = "calibrationHeader"
                    => emitted[i].len = 1 + 29 * Get(calibrationHeader).calibrationNum

\* a three-entry header was decoded over 88 bytes and emitted as 88 bytes
C10_Witness ==
    /\ FreshReadThenWrite
    /\ ~IsNone(calibrationHeader)
    /\ Get(calibrationHeader).calibrationNum = 3
    /\ \E i \in 1..Len(readTrace) :
          /\ readTrace[i].section = "calibrationHeader"
          /\ ~readTrace[i].failed
          /\ readTrace[i].ret - readTrace[i].start = 88
    /\ \E i \in 1..Len(emitted) :
          emitted[i].section = "calibrationHeader" /\ emitted[i].len = 88

\* C11: whenever write emits a metadata block, that block is exactly 481
\* bytes long, whatever read and update made of the metadata record.
C11_MetadataBlockSize ==
    \A i \in 1..Len(emitted) : emitted[i].section = "metadata" => emitted[i].len = 481

\* a write that emitted the metadata of a file after update replaced one of
\* its fields
C11_Witness ==
    /\ lastOp = "write"
    /\ updateResult = "ok"
    /\ \E i \in 1..Len(emitted) : emitted[i].section = "metadata"
    /\ ~IsNone(metadata)
    /\ Get(metadata).channels = 2
    /\ lastPath = PathOf(F_v1)

\* C12: whenever 481 bytes follow the version bytes, the metadata decoder
\* advances the offset from 3 to 484 whatever the values of the fields are,
\* and the spectrum block is decoded from offset 484.
C12_MetadataAdvance ==
    (lastOp = "read" /\ lastPath # NoFile /\ Recognized(lastPath)
     /\ Len(StreamOf(Files[lastPath])) >= 3 + 481)
        => /\ \E i \in 1..Len(readTrace) :
                /\ readTrace[i].section = "metadata"
                /\ readTrace[i].start = 3
                /\ readTrace[i].ret = 484
           /\ \E i \in 1..Len(readTrace) :
                /\ readTrace[i].section = "spectrumData"
                /\ readTrace[i].start = 484

\* C13: the trailer FF FE FD of the file read is stripped before the
\* sections are parsed, and a write that completes appends it after the last
\* section exactly when the file read ended with it.
C13_Trailer ==
    /\ (lastOp = "read" /\ lastPath # NoFile)
          => asdFileStream = Some(StreamOf(Files[lastPath]))
    /\ (lastOp = "write" /\ writeResult = "True" /\ lastPath # NoFile)
          => (HasTrailer(Files[lastPath])
                <=> (emitted # << >> /\ emitted[Len(emitted)].section = "bom"))

\* the version 8 files that hold audit events, and the bytes between the tags
\* of their events
AuditEventsOf(path) ==
    CASE path = PathOf(F_v8bom) -> << << 97 >>, << 98 >> >>
      [] path = PathOf(F_v8utf8) -> << << 195, 169 >> >>
      [] path = PathOf(F_v8count3) -> << << 97 >>, << 98 >> >>
      [] OTHER -> << >>

\* the events of a file as the format stores them: each XML string after the
\* 16-bit count of its bytes
EventSection(events) == Flatten([i \in 1..Len(events) |-> Bstr(EventBytes(events[i]))])

\* the bytes `part` stand somewhere in `b`
Contains(b, part) ==
    \E off \in 0..(Len(b) - Len(part)) : Slice(b, off, off + Len(part)) = part

\* C14: for a version 8 file with n >= 1 audit events, read into a fresh
\* object and written, the output holds the n event strings in their order
\* and with their bytes, each after a 16-bit length that is the number of its
\* bytes.
C14_AuditEventsExact ==
    (FreshReadThenWrite /\ AuditEventsOf(lastPath) # << >>)
        => (~IsNone(outFile)
            /\ Contains(Get(outFile), EventSection(AuditEventsOf(lastPath))))

\* C15: an auditLog record that read has set holds as many decoded events as
\* its auditCount says.
C15_AuditCountMatches ==
    ~IsNone(auditLog) => Len(Get(auditLog).auditEvents) = Get(auditLog).auditCount

\* the channel i (from 0) of normalise(spec) as the format defines it, s1 and
\* s2 being the splice indices
NormalisedChannel(spec, md, i) ==
    IF i < md.splice1_wavelength
    THEN RatDiv(UnpackDouble(spec[i + 1]), md.intergrationTime_ms)
    ELSE IF i < md.splice2_wavelength
    THEN RatDiv(RatMul(UnpackDouble(spec[i + 1]), md.swir1Gain), 2048)
    ELSE RatDiv(RatMul(UnpackDouble(spec[i + 1]), md.swir2Gain), 2048)

\* the splice indices are valid for the spectrum
ValidSplice(spec, md) ==
    /\ 0 <= md.splice1_wavelength
    /\ md.splice1_wavelength <= md.splice2_wavelength
    /\ md.splice2_wavelength <= Len(spec)

\* C16: for splice indices s1 <= s2 <= channels, normalise returns the
\* spectrum with the channels [0, s1) divided by the integration time, the
\* channels [s1, s2) times swir1Gain / 2048 and the channels [s2, end) times
\* swir2Gain / 2048.
C16_NormaliseSplit ==
    (lastOp = "normalise" /\ accessResult.kind = "value"
     /\ ValidSplice(Get(Get(spectrumData).spectra), Get(metadata)))
        => /\ Len(accessResult.val) = Len(Get(Get(spectrumData).spectra))
           /\ \A i \in 0..(Len(accessResult.val) - 1) :
                accessResult.val[i + 1]
                    = NormalisedChannel(Get(Get(spectrumData).spectra), Get(metadata), i)

\* C17: after an update that succeeded on an object that holds metadata, the
\* wavelength axis exists and its length is metadata.channels; when the field
\* was channel1Wavelength, channels or wavelengthStep the axis is the one
\* that starts at channel1Wavelength and advances by wavelengthStep.
C17_WavelengthAxis ==
    (lastOp = "update" /\ updateResult = "ok" /\ ~IsNone(metadata))
        => /\ ~IsNone(wavelengths)
           /\ Len(Get(wavelengths)) = Get(metadata).channels
           /\ lastField \in WavelengthFields
                => \A i \in 1..Len(Get(wavelengths)) :
                      Get(wavelengths)[i] = Get(metadata).channel1Wavelength
                                            + (i - 1) * Get(metadata).wavelengthStep

\* the names the decoder gives to the conditions of the format: the
\* saturations of SWIR1 and SWIR2 and the alarms of the SWIR1 and SWIR2
\* coolers
SWIR1_saturation == "SWIR1 saturation"
SWIR2_saturation == "SWIR2 saturation"
SWIR1_TEC_alarm == "TEC1 Alarm"
SWIR2_TEC_alarm == "TEC2 Alarm"

\* the decoder ran on a metadata whose flags2 is 0b00010110
DecodedFlags22 ==
    /\ lastOp = "checkSaturationError"
    /\ accessResult.kind = "value"
    /\ Get(metadata).flags2 = 22

Range(seq) == {seq[i] : i \in 1..Len(seq)}

\* C18 as stated: for flags2 = 0b00010110 the decoder returns exactly the
\* saturation of SWIR1, the saturation of SWIR2 and the alarm of the SWIR1
\* cooler.
C18_Flags22_Tec1 ==
    DecodedFlags22
        => Range(accessResult.val) = {SWIR1_saturation, SWIR2_saturation, SWIR1_TEC_alarm}

\* C18 amended: for flags2 = 0b00010110 (bits 1, 2 and 4) the decoder returns
\* exactly the saturation of SWIR1, the saturation of SWIR2 and the alarm of
\* the SWIR2 cooler, each once.
C18_Flags22_Tec2 ==
    DecodedFlags22
        => accessResult.val = << SWIR1_saturation, SWIR2_saturation, SWIR2_TEC_alarm >>

C18_Witness ==
    /\ DecodedFlags22
    /\ nOps = 2
    /\ lastPath = PathOf(F_v1)
    /\ Len(accessResult.val) = 3

\* C19: update with a field name that is no field of the metadata record is
\* rejected with an error and leaves the aggregate as it was, whatever the
\* object holds, also when it holds no metadata.
C19_UnknownFieldRejected ==
    [][(lastOp' = "update" /\ lastField' \notin MetadataFields)
          => (updateResult' = "raised" /\ UNCHANGED aggVars)]_vars

\* the three preconditions of the reflectance
ReflectancePreconditions ==
    /\ asdFileVersion >= 2
    /\ ~IsNone(metadata)
    /\ Get(metadata).dataType = 1
    /\ Get(metadata).referenceTime > 0

\* the object holds a spectrum and a reference spectrum of the same length
HoldsSpectra ==
    /\ ~IsNone(spectrumData)
    /\ ~IsNone(referenceData)
    /\ ~IsNone(Get(spectrumData).spectra)
    /\ ~IsNone(Get(referenceData).spectra)
    /\ Len(Get(Get(spectrumData).spectra)) = Len(Get(Get(referenceData).spectra))
    /\ Normalisable(Get(Get(spectrumData).spectra), Get(metadata))
    /\ Normalisable(Get(Get(referenceData).spectra), Get(metadata))

\* normalise(spectrum) / normalise(reference), 0 where the divisor is 0
ReflectanceQuotient ==
    LET spec == Get(Get(spectrumData).spectra)
        ref == Get(Get(referenceData).spectra)
        md == Get(metadata)
    IN [i \in 1..Len(spec) |->
            IF NormalisedChannel(ref, md, i - 1)[1] = 0 THEN << 0, 1 >>
            ELSE RatQuot(NormalisedChannel(spec, md, i - 1), NormalisedChannel(ref, md, i - 1))]

\* C20: with version >= 2, dataType 1 and a reference time above 0 the
\* reflectance is the quotient of the normalised spectrum and the normalised
\* reference, 0 in the channels whose normalised reference is 0; when one of
\* the three preconditions fails there is no result.
C20_Reflectance ==
    lastOp = "reflectance"
        => /\ (ReflectancePreconditions /\ HoldsSpectra)
                => accessResult = Access("value", ReflectanceQuotient)
           /\ ~ReflectancePreconditions => accessResult.kind = "None"

\* the calibration slots that hold a spectrum
PopulatedSlots == {slot \in SeriesSlots : ~IsNone(Agg[slot])}

\* the conditions of the radiance: version, data type, calibration
RadiancePreconditions ==
    /\ asdFileVersion >= 7
    /\ ~IsNone(metadata)
    /\ Get(metadata).dataType = 2
    /\ Cardinality(PopulatedSlots) >= 3

BooleanSections == {"referenceFileHeader", "dependants"}

\* the offset in the output of the i-th emitted section
RECURSIVE EmittedStart(_)
EmittedStart(i) == IF i <= 1 THEN 0 ELSE EmittedStart(i - 1) + emitted[i - 1].len

\* the two bytes of the Boolean of the i-th emitted section
EmittedBoolean(i) == Slice(Get(outFile), EmittedStart(i), EmittedStart(i) + 2)

\* C22: every Boolean that write emits is FF FF or 00 00, and the Boolean of
\* a section decoded from a file and written again is the two bytes the file
\* holds.
C22_BooleanSentinels ==
    lastOp = "write" =>
        \A i \in 1..Len(emitted) :
            emitted[i].section \in BooleanSections
                => /\ EmittedBoolean(i) \in {<< 255, 255 >>, << 0, 0 >>}
                   /\ FreshReadThenWrite
                        => \A j \in 1..Len(readTrace) :
                              readTrace[j].section = emitted[i].section
                                => EmittedBoolean(i)
                                     = Slice(Get(asdFileStream), readTrace[j].start,
                                             readTrace[j].start + 2)

\* a version 6 file, whose reference flag is FF FF and whose dependents flag
\* is 00 00, was read and written with both sections
C22_Witness ==
    /\ FreshReadThenWrite
    /\ lastPath = PathOf(F_v6)
    /\ writeResult = "True"
    /\ BooleanSections \subseteq EmittedSections
    /\ \E i \in 1..Len(emitted) : EmittedBoolean(i) = << 255, 255 >>
    /\ \E i \in 1..Len(emitted) :
          emitted[i].section = "dependants" /\ EmittedBoolean(i) = << 0, 0 >>

\* the version 8 files whose audit count is 0
AuditCountZeroPaths == {PathOf(F_v8audit0)}

\* C23: read of a version 8 file whose audit count is 0 sets auditLog with
\* the count 0 and no events, advances over the count field only and decodes
\* the signature; a write that follows succeeds.
C23_AuditCountZero ==
    /\ (FreshRead /\ lastPath \in AuditCountZeroPaths)
          => /\ ~IsNone(auditLog)
             /\ Get(auditLog).auditCount = 0
             /\ Get(auditLog).auditEvents = << >>
             /\ \E i \in 1..Len(readTrace) :
                   /\ readTrace[i].section = "auditLog"
                   /\ readTrace[i].ret = readTrace[i].start + AuditCountSize
             /\ ~IsNone(signature)
    /\ (FreshReadThenWrite /\ lastPath \in AuditCountZeroPaths) => writeResult = "True"

\* C24: in every state the version of the object is one of 0 (Invalid), 1,
\* ..., 8, and a read of a file whose version string is not recognized
\* leaves it at 0.
C24_VersionRange ==
    /\ asdFileVersion \in 0..8
    /\ (lastOp = "read" /\ lastPath # NoFile /\ ~Recognized(lastPath)) => asdFileVersion = 0

\* the spectrum records of the object, and the number of values of one
SpectrumRecords == {"spectrumData", "referenceData"}
HoldsChannels(spectra, n) == ~IsNone(spectra) /\ Len(Get(spectra)) = n

\* C25: whenever metadata and spectrumData are both set, spectrumData,
\* referenceData if set, and every populated calibration slot hold
\* metadata.channels values.
C25_SpectrumLength ==
    (~IsNone(metadata) /\ ~IsNone(spectrumData))
        => /\ \A rec \in SpectrumRecords :
                ~IsNone(Agg[rec]) => HoldsChannels(Get(Agg[rec]).spectra, Get(metadata).channels)
           /\ \A slot \in SeriesSlots :
                ~IsNone(Agg[slot]) => HoldsChannels(Agg[slot], Get(metadata).channels)

\* C26: an offset that a section decoder returns during read, rather than a
\* failure, is at most the length of the buffer.
C26_OffsetWithinBuffer ==
    (lastOp = "read" /\ ~IsNone(asdFileStream))
        => \A i \in 1..Len(readTrace) :
              ~readTrace[i].failed => readTrace[i].ret <= Len(Get(asdFileStream))

\* the 18 bytes of the `When` record in the buffer of a file
WhenOffset == 3 + 157
OnDiskWhen(stream) == Slice(stream, WhenOffset, WhenOffset + 18)

\* read decoded the metadata of the buffer it holds
DecodedWhen ==
    /\ lastOp = "read"
    /\ ~IsNone(asdFileStream)
    /\ ~IsNone(metadata)
    /\ \E i \in 1..Len(readTrace) :
          readTrace[i].section = "metadata" /\ ~readTrace[i].failed

\* C27: a `When` record that read decoded is encoded back with the month and
\* the year it has on disk, for the years below 1900 and for the years from
\* 1900 on alike.
C27_WhenRoundTrip ==
    DecodedWhen
        => LET md == Get(metadata)
               disk == OnDiskWhen(Get(asdFileStream))
               back == wrap_ASDFilewhen(md.when, md.daylighSavingsFlag)
           IN /\ S16(back, 8) = S16(disk, 8)
              /\ S16(back, 10) = S16(disk, 10)
              /\ md.when.month = S16(disk, 8) + 1

\* the bit table of flags2: the mask of each flag, in the order of the decoder
FlagTable ==
    << [mask |-> 1, name |-> "VNIR saturation"],
       [mask |-> 2, name |-> SWIR1_saturation],
       [mask |-> 4, name |-> SWIR2_saturation],
       [mask |-> 8, name |-> SWIR1_TEC_alarm],
       [mask |-> 16, name |-> SWIR2_TEC_alarm] >>

\* the bit `mask` of the byte whose signed value is flags2 is set
BitSet(flags2, mask) == ((flags2 % 256) \div mask) % 2 = 1

\* the flags of the table whose bit is set in flags2
FlagsSet(flags2) == {FlagTable[k].name : k \in {j \in 1..Len(FlagTable) : BitSet(flags2, FlagTable[j].mask)}}

SignedBytes == (-128)..127

\* the decoder ran on the metadata of the object
DecodedFlags ==
    /\ lastOp = "checkSaturationError"
    /\ accessResult.kind = "value"
    /\ ~IsNone(metadata)

\* C28: the decoder returns exactly the flags whose bit is set in flags2,
\* each once, under the table 0x01, 0x02, 0x04, 0x08, 0x10; the bits 0x20,
\* 0x40 and 0x80 add nothing.  Stated of the flags2 of the object the decoder
\* ran on and of every value of a signed byte.
C28_FlagsExact ==
    DecodedFlags
        => /\ Range(accessResult.val) = FlagsSet(Get(metadata).flags2)
           /\ Len(accessResult.val) = Cardinality(FlagsSet(Get(metadata).flags2))
           /\ \A f \in SignedBytes :
                 LET errors == checkSaturationError([flags2 |-> f])
                 IN /\ Range(errors) = FlagsSet(f)
                    /\ Len(errors) = Cardinality(FlagsSet(f))
                    /\ errors = checkSaturationError([flags2 |-> f % 32])

\* the decoder ran on a flags2 whose bits 0x20, 0x40 and 0x80 are set, with
\* all or none of the five flags
C28_Witness ==
    /\ DecodedFlags
    /\ lastField = "none"
    /\ \/ Get(metadata).flags2 = -32 /\ accessResult.val = << >>
       \/ Get(metadata).flags2 = -1 /\ Len(accessResult.val) = 5

\* C29: write emits the trailer only of the file most recently read: when
\* that file has no trailer, write emits none, whatever was read before it.
C29_TrailerOfLastRead ==
    (lastOp = "write" /\ lastPath # NoFile /\ ~HasTrailer(Files[lastPath]))
        => \A i \in 1..Len(emitted) : emitted[i].section # "bom"

\* C30: no exception leaves read: for the missing file, the file of an
\* unknown version, the truncated files and the files with a malformed field
\* read returns True or False, the failure of a section staying inside read.
C30_ReadReturnsBoolean ==
    lastOp = "read" => (~readRaised /\ readSuccess \in BOOLEAN)

\* read returned True for the version 7 file cut inside its classifier
\* section: the decoder of the calibration header raised on the offset it
\* was given, and read went on
C30_Witness ==
    /\ lastOp = "read"
    /\ lastPath = PathOf(F_v7consCut)
    /\ ~readRaised
    /\ readSuccess = TRUE
    /\ IsNone(calibrationHeader)
    /\ \E i \in 1..Len(readTrace) :
          /\ readTrace[i].section = "calibrationHeader"
          /\ readTrace[i].failed
          /\ readTrace[i].start = NoneTuple
====
